---- MODULE Spec2Model ----
(***************************************************************************)
(* A state-machine model of the dispatch and delivery-tracking engine of   *)
(* the FCM notification server: the asynchronous retry pipeline            *)
(* (notification/tasks.py), the synchronous send views                     *)
(* (notification/views.py), the provider client pool                       *)
(* (notification/services/fcm_service.py), the webhook dispatcher          *)
(* (notification/services/webhook_dispatcher.py) and the scheduled sweep   *)
(* (notification/tasks.py).                                                *)
(*                                                                         *)
(* Each subsystem has its own specification (SpecRetry, SpecSend, ...)     *)
(* over the shared variables; the variables a subsystem does not touch     *)
(* stay at their initial value in its specification.                       *)
(***************************************************************************)
EXTENDS Integers, Sequences, FiniteSets

VARIABLES
    notifs,     \* Notification table: sequence of rows, pk = index
    ledger,     \* NotificationDeliveryLog table: sequence of rows (no unique key)
    devices,    \* Device table: is_active of every device
    task,       \* per send_notification_async task: queue state, request.retries, countdown
    attempts,   \* history: per task, failed attempts so far and the last attempt's outcome
    btask,      \* the send_bulk_notification_async task: queue state, request.retries, countdown
    reqs,       \* history: one record per handler run (view request or bulk task attempt)
    fapps,      \* _firebase_apps: cache key -> app (0: no entry)
    registry,   \* firebase_admin._apps: app name -> app (0: no entry)
    cred_path,  \* settings.FIREBASE_CREDENTIALS_PATH is set
    thr,        \* per calling thread: position in _get_or_create_app, key, local app
    built,      \* history: per app name, number of apps initialize_app created
    rets,       \* history: the (key, app) pairs returned to callers; app 0: the call raised
    hooks,      \* WebhookEndpoint table: failure_count and is_active of every endpoint
    flight,     \* per running dispatch call: the endpoint objects it loaded and has not delivered to yet
    whist,      \* history: per endpoint the consecutive failed deliveries and whether a delivery was made while it was stored inactive; reactivations in all
    sched,      \* ScheduledNotification table: the rows' fields
    clock,      \* timezone.now(), in days
    sweep,      \* per run of process_scheduled_notifications: position, now, the due objects not yet processed, processed
    shist,      \* history: per run the due rows loaded, those that raised and those processed; per row the provider sends made
    wr,         \* per concurrent writer of the ledger: position in update_or_create, its arguments, calls made
    last_seen,  \* Device table: last_seen of every device, in days
    cleaned,    \* history: the runs of cleanup_stale_tokens since the Device table last changed, the last run's count and the devices it deactivated
    render,     \* one use of the template engine: its inputs, position and results
    ttask       \* the send_topic_notification_async task: queue state, request.retries, countdown, failed attempts

retryVars == <<task, attempts>>
sendVars == <<btask, reqs>>
poolVars == <<fapps, registry, cred_path, thr, built, rets>>
hookVars == <<hooks, flight, whist>>
sweepVars == <<sched, clock, sweep, shist>>
miscVars == <<last_seen, cleaned, render, ttask>>
nonSweep == <<devices, task, attempts, btask, reqs, poolVars, hookVars, wr, miscVars>>
nonPool == <<notifs, ledger, devices, task, attempts, btask, reqs, hookVars, sweepVars, wr, miscVars>>
nonHook == <<notifs, ledger, devices, task, attempts, btask, reqs, poolVars, sweepVars, wr, miscVars>>
vars == <<notifs, ledger, devices, task, attempts, btask, reqs,
          fapps, registry, cred_path, thr, built, rets, hooks, flight, whist,
          sched, clock, sweep, shist, wr, last_seen, cleaned, render, ttask>>

NULL == "NULL"

(***************************************************************************)
(* Bounds of the model.                                                    *)
(***************************************************************************)
NumTasks == 2
MaxRequests == 2
NumThreads == 2
MaxCalls == 3
MaxConsecutive == 11
MaxOtherConsecutive == 2
MaxReactivations == 1
MaxClock == 2
NumWriters == 2
MaxUpserts == 2
\* Days that pass after the retention window's first day; the same number
\* bounds the initial last_seen of a device.
MaxDays == 2
\* Runs of cleanup_stale_tokens between two changes of the Device table.
MaxRuns == 2
\* Pieces (placeholders and other text) of a template string.
MaxPieces == 2

\* Texts str(exc) of the exceptions the provider raises.
Errors == {"E1", "E2"}

\* The Device table: devices 1 and 2 belong to profile 1, device 3 to profile 2.
Devices == {1, 2, 3}
Profiles == {1, 2}
ProfileOf(d) == IF d = 3 THEN 2 ELSE 1

\* The send_notification_async tasks in the queue.
Tasks == 1..NumTasks

(***************************************************************************)
(* Delivery ledger: NotificationDeliveryLog rows and update_or_create.     *)
(***************************************************************************)

\* A new NotificationDeliveryLog row with the model's field defaults.
NewLog(n, d) ==
    [notification |-> n, device |-> d, status |-> "pending",
     error_message |-> NULL, delivered_at |-> NULL]

\* Indices of the rows of l for the pair (n, d): the lookup of update_or_create.
Matching(l, n, d) ==
    {i \in 1..Len(l) : l[i].notification = n /\ l[i].device = d}

\* A row with the fields named in defaults overwritten, the others kept.
SetFields(row, defaults) ==
    [f \in DOMAIN row |-> IF f \in DOMAIN defaults THEN defaults[f] ELSE row[f]]

\* QuerySet.get inside update_or_create raises MultipleObjectsReturned
\* when more than one row matches.
UocRaises(l, n, d) == Cardinality(Matching(l, n, d)) > 1

\* NotificationDeliveryLog.objects.update_or_create(notification, device, defaults):
\* no matching row: create one from the lookup and the defaults;
\* one matching row: set the fields of defaults on it and save.
UpdateOrCreate(l, n, d, defaults) ==
    LET m == Matching(l, n, d) IN
    IF m = {} THEN Append(l, SetFields(NewLog(n, d), defaults))
    ELSE LET i == CHOOSE j \in m : TRUE IN
         [l EXCEPT ![i] = SetFields(l[i], defaults)]

\* The workers that can be inside update_or_create at the same time, none of
\* them in a call.
Writers == 1..NumWriters
WrIdle ==
    wr = [w \in Writers |-> [pc |-> "idle", n |-> 0, d |-> 0, out |-> NULL, calls |-> 0]]

\* The devices just saved, no cleanup run, the template engine not in use,
\* no topic task enqueued.
MiscIdle ==
    /\ last_seen = [d \in Devices |-> 0]
    /\ cleaned = [runs |-> 0, count |-> 0, deactivated |-> {}]
    /\ render = [pc |-> "idle"]
    /\ ttask = [st |-> "none", retries |-> 0, countdown |-> 0, failed |-> 0]

(***************************************************************************)
(* Webhook dispatcher: dispatch_webhook (a thread per endpoint),           *)
(* dispatch_webhook_async (one task, endpoints in turn), _deliver_webhook. *)
(***************************************************************************)
\* The WebhookEndpoint rows of the api client.
Webhooks == DOMAIN hooks

\* The dispatch calls that can be under way at once: the queue worker running
\* dispatch_webhook_async, and two dispatch_webhook calls (requests) whose
\* threads have not all finished.
TaskSlot == "task"
Slots == {"task", "request_a", "request_b"}

MAX_FAILURE_COUNT == 10

\* WebhookEndpoint.events of the two endpoints.
EventTypes == {"notification.sent", "notification.failed"}
EventsOf(w) == IF w = 1 THEN EventTypes ELSE {"notification.sent"}

\* The endpoints of W as created: active, no failure.
HooksStart(W) ==
    /\ hooks = [w \in W |-> [failure_count |-> 0, is_active |-> TRUE]]
    /\ flight = [s \in Slots |-> {}]
    /\ whist = [consecutive |-> [w \in W |-> 0],
                to_inactive |-> [w \in W |-> FALSE],
                reactivated |-> 0]

\* The endpoint table in the specifications that do not use it.
HooksIdle == HooksStart({1})

\* WebhookEndpoint.objects.filter(api_client=..., is_active=True), filtered to
\* the endpoints subscribed to event_type: the objects as loaded now.
matching(event_type) ==
    {[w |-> w, failure_count |-> hooks[w].failure_count,
      is_active |-> hooks[w].is_active] :
        w \in {x \in Webhooks : hooks[x].is_active /\ event_type \in EventsOf(x)}}

\* A dispatch call in slot s loads the matching endpoints; its deliveries
\* follow as separate steps.
Dispatch(s, event_type) ==
    /\ flight[s] = {}
    /\ matching(event_type) # {}
    /\ flight' = [flight EXCEPT ![s] = matching(event_type)]
    /\ UNCHANGED <<hooks, whist>>
    /\ UNCHANGED nonHook

\* dispatch_webhook(event_type, payload, api_client): one daemon thread per
\* matching endpoint is started with the loaded object; the call returns.
dispatch_webhook ==
    \E s \in Slots \ {TaskSlot}, ev \in EventTypes : Dispatch(s, ev)

\* dispatch_webhook_async: the task delivers to the loaded objects in turn.
dispatch_webhook_async ==
    \E ev \in EventTypes : Dispatch(TaskSlot, ev)

\* The endpoint object after the except branch of _deliver_webhook:
\* failure_count += 1, is_active = False once MAX_FAILURE_COUNT is reached.
AfterFailure(c) ==
    [failure_count |-> c.failure_count + 1,
     is_active |-> IF c.failure_count + 1 >= MAX_FAILURE_COUNT
                   THEN FALSE ELSE c.is_active]

\* The environment fails at most this many deliveries in a row per endpoint:
\* enough to pass the threshold when the client has one endpoint, a few when
\* it has several.
MaxConsecutiveOf(w) ==
    IF Cardinality(Webhooks) = 1 THEN MaxConsecutive ELSE MaxOtherConsecutive

\* The POST to the endpoint of the loaded object c may fail now.
MayFail(c) ==
    /\ whist.consecutive[c.w] < MaxConsecutiveOf(c.w)
    /\ Cardinality(Webhooks) > 1 => c.failure_count < MaxOtherConsecutive

\* A delivery in slot s may run: threads run in any order, the task delivers
\* to its endpoints in the order of the query.
MayDeliver(s, c) ==
    /\ c \in flight[s]
    /\ s = TaskSlot => \A o \in flight[s] : c.w <= o.w

\* A slip: the success branch stamps last_triggered_at and leaves the count.
DeliverOk_no_reset(s, c) ==
    /\ MayDeliver(s, c)
    /\ hooks' = hooks
    /\ flight' = [flight EXCEPT ![s] = @ \ {c}]
    /\ whist' = [whist EXCEPT !.consecutive[c.w] = 0,
                              !.to_inactive[c.w] = @ \/ ~hooks[c.w].is_active]
    /\ UNCHANGED nonHook

\* _deliver_webhook(webhook, payload) when the POST succeeds with a 2xx status:
\* save(update_fields=['failure_count', 'last_triggered_at']).
DeliverOk(s, c) ==
    /\ MayDeliver(s, c)
    /\ hooks' = [hooks EXCEPT ![c.w].failure_count = 0]
    /\ flight' = [flight EXCEPT ![s] = @ \ {c}]
    /\ whist' = [whist EXCEPT !.consecutive[c.w] = 0,
                              !.to_inactive[c.w] = @ \/ ~hooks[c.w].is_active]
    /\ UNCHANGED nonHook

\* A slip: the exception of a failed POST leaves dispatch_webhook_async's loop,
\* the endpoints after it are not delivered to.
DeliverFailed_abort(s, c) ==
    /\ MayDeliver(s, c)
    /\ MayFail(c)
    /\ hooks' = [hooks EXCEPT ![c.w] = AfterFailure(c)]
    /\ flight' = [flight EXCEPT ![s] = IF s = TaskSlot THEN {} ELSE @ \ {c}]
    /\ whist' = [whist EXCEPT !.consecutive[c.w] = @ + 1,
                              !.to_inactive[c.w] = @ \/ ~hooks[c.w].is_active]
    /\ UNCHANGED nonHook

\* _deliver_webhook(webhook, payload) when the POST raises RequestException
\* (network error, timeout, non-2xx status):
\* save(update_fields=['failure_count', 'last_triggered_at', 'is_active']).
DeliverFailed(s, c) ==
    /\ MayDeliver(s, c)
    /\ MayFail(c)
    /\ hooks' = [hooks EXCEPT ![c.w] = AfterFailure(c)]
    /\ flight' = [flight EXCEPT ![s] = @ \ {c}]
    /\ whist' = [whist EXCEPT !.consecutive[c.w] = @ + 1,
                              !.to_inactive[c.w] = @ \/ ~hooks[c.w].is_active]
    /\ UNCHANGED nonHook

\* Manual reactivation through WebhookEndpointRetrieveUpdateDestroyView:
\* is_active is writable, failure_count is read-only.
Reactivate(w) ==
    /\ ~hooks[w].is_active
    /\ whist.reactivated < MaxReactivations
    /\ hooks' = [hooks EXCEPT ![w].is_active = TRUE]
    /\ whist' = [whist EXCEPT !.consecutive[w] = 0,
                              !.to_inactive[w] = FALSE,
                              !.reactivated = @ + 1]
    /\ UNCHANGED flight
    /\ UNCHANGED nonHook

(***************************************************************************)
(* Scheduled notifications: the table and the runs of the periodic task    *)
(* process_scheduled_notifications.                                        *)
(***************************************************************************)
\* The ScheduledNotification rows and the runs of the sweep.
Rows == DOMAIN sched
Sweepers == DOMAIN sweep

\* The table R with one run per element of S, none started, no send made.
SweepStartState(R, S) ==
    /\ sched \in R
    /\ clock = 0
    /\ sweep = [s \in S |-> [pc |-> "idle", now |-> 0, due |-> <<>>, processed |-> 0]]
    /\ shist = [loaded |-> [s \in S |-> {}],
                raised |-> [s \in S |-> {}],
                saved |-> [s \in S |-> {}],
                sends |-> [r \in DOMAIN sched |-> 0]]

\* The scheduled table in the specifications that do not use it.
SweepIdle == SweepStartState({<<>>}, {1})

(***************************************************************************)
(* Provider client pool: FCMService._get_or_create_app over the module     *)
(* cache _firebase_apps and the SDK's registry of named apps.              *)
(***************************************************************************)
Threads == 1..NumThreads
Tenants == {1, 2}

\* app_name: '[DEFAULT]' or f"project_{firebase_project.pk}"
DEFAULT == "[DEFAULT]"
AppName(tenant) == IF tenant = 1 THEN "project_1" ELSE "project_2"
AppNames == {DEFAULT} \cup {AppName(x) : x \in Tenants}

\* The pool before any request, with the default credential set or not.
PoolStart ==
    /\ fapps = [k \in AppNames |-> 0]
    /\ registry = [k \in AppNames |-> 0]
    /\ thr = [p \in Threads |-> [pc |-> "idle", key |-> DEFAULT, app |-> 0, calls |-> 0]]
    /\ built = [k \in AppNames |-> 0]
    /\ rets = {}

\* The pool in the specifications that do not use it.
PoolIdle == PoolStart /\ cred_path = TRUE

\* The number of calls the threads of S have made.
RECURSIVE Calls(_)
Calls(S) ==
    IF S = {} THEN 0
    ELSE LET p == CHOOSE q \in S : TRUE IN thr[p].calls + Calls(S \ {p})

\* A caller constructs FCMService(firebase_project): _get_or_create_app starts.
Begin(p, key) ==
    /\ thr[p].pc = "idle"
    /\ Calls(Threads) < MaxCalls
    /\ thr' = [thr EXCEPT ![p] = [pc |-> "check", key |-> key, app |-> 0,
                                  calls |-> @.calls + 1]]
    /\ UNCHANGED <<fapps, registry, cred_path, built, rets>>
    /\ UNCHANGED nonPool

\* The call of thread p returns app a.
Return(p, a) ==
    /\ thr' = [thr EXCEPT ![p].pc = "idle", ![p].app = a]
    /\ rets' = rets \cup {<<thr[p].key, a>>}

\* The call of thread p raises ValueError.
Raise(p) ==
    /\ thr' = [thr EXCEPT ![p].pc = "idle", ![p].app = 0]
    /\ rets' = rets \cup {<<thr[p].key, 0>>}

\* A cache hit that reads the entry of the wrong key.
CachedApp_default(name) == fapps[DEFAULT]

\* _firebase_apps[app_name] on a cache hit.
CachedApp(name) == fapps[name]

\* if app_name in _firebase_apps: return _firebase_apps[app_name]
CheckCache(p) ==
    /\ thr[p].pc = "check"
    /\ IF fapps[thr[p].key] # 0
       THEN Return(p, CachedApp(thr[p].key))
       ELSE /\ thr' = [thr EXCEPT ![p].pc =
                          IF thr[p].key = DEFAULT THEN "cred" ELSE "get_app"]
            /\ rets' = rets
    /\ UNCHANGED <<fapps, registry, cred_path, built>>
    /\ UNCHANGED nonPool

\* A slip: the missing path is not checked, the SDK is asked for an app.
CheckCred_unchecked(p) ==
    /\ thr[p].pc = "cred"
    /\ thr' = [thr EXCEPT ![p].pc = "probe"]
    /\ UNCHANGED <<fapps, registry, cred_path, built, rets>>
    /\ UNCHANGED nonPool

\* cred_path = settings.FIREBASE_CREDENTIALS_PATH; if not cred_path: raise ValueError
CheckCred(p) ==
    /\ thr[p].pc = "cred"
    /\ IF cred_path
       THEN thr' = [thr EXCEPT ![p].pc = "probe"] /\ rets' = rets
       ELSE Raise(p)
    /\ UNCHANGED <<fapps, registry, cred_path, built>>
    /\ UNCHANGED nonPool

\* if not firebase_admin._apps: ... else: ...
Probe(p) ==
    /\ thr[p].pc = "probe"
    /\ thr' = [thr EXCEPT ![p].pc =
                  IF \A k \in AppNames : registry[k] = 0
                  THEN "init" ELSE "get_default"]
    /\ UNCHANGED <<fapps, registry, cred_path, built, rets>>
    /\ UNCHANGED nonPool

\* The app initialize_app registers: a new one, distinct from every earlier app.
NewApp == 1 + built[DEFAULT] + built[AppName(1)] + built[AppName(2)]

\* An app constructed without the registry's check of the name.
CanInitialize_always(name) == TRUE

\* firebase_admin.initialize_app(cred, name) can register an app under name:
\* the SDK raises ValueError when an app of that name exists.
CanInitialize(name) == registry[name] = 0

\* app = firebase_admin.initialize_app(cred[, name=app_name])
InitializeApp(p) ==
    /\ thr[p].pc = "init"
    /\ IF CanInitialize(thr[p].key)
       THEN /\ registry' = [registry EXCEPT ![thr[p].key] = NewApp]
            /\ built' = [built EXCEPT ![thr[p].key] = @ + 1]
            /\ thr' = [thr EXCEPT ![p].pc = "store", ![p].app = NewApp]
            /\ rets' = rets
       ELSE /\ Raise(p)
            /\ UNCHANGED <<registry, built>>
    /\ UNCHANGED <<fapps, cred_path>>
    /\ UNCHANGED nonPool

\* app = firebase_admin.get_app() on the default path: ValueError when the
\* default app does not exist.
GetDefaultApp(p) ==
    /\ thr[p].pc = "get_default"
    /\ IF registry[DEFAULT] # 0
       THEN thr' = [thr EXCEPT ![p].pc = "store", ![p].app = registry[DEFAULT]]
            /\ rets' = rets
       ELSE Raise(p)
    /\ UNCHANGED <<fapps, registry, cred_path, built>>
    /\ UNCHANGED nonPool

\* try: app = firebase_admin.get_app(name=app_name)
\* except ValueError: (go on to initialize_app)
GetApp(p) ==
    /\ thr[p].pc = "get_app"
    /\ thr' = [thr EXCEPT ![p] =
                  IF registry[thr[p].key] # 0
                  THEN [@ EXCEPT !.pc = "store", !.app = registry[thr[p].key]]
                  ELSE [@ EXCEPT !.pc = "init"]]
    /\ UNCHANGED <<fapps, registry, cred_path, built, rets>>
    /\ UNCHANGED nonPool

\* _firebase_apps[app_name] = app; return app
Store(p) ==
    /\ thr[p].pc = "store"
    /\ fapps' = [fapps EXCEPT ![thr[p].key] = thr[p].app]
    /\ Return(p, thr[p].app)
    /\ UNCHANGED <<registry, cred_path, built>>
    /\ UNCHANGED nonPool

InitPool ==
    /\ notifs = <<>>
    /\ ledger = <<>>
    /\ devices = [d \in Devices |-> TRUE]
    /\ task = [t \in Tasks |-> [st |-> "none", retries |-> 0, countdown |-> 0]]
    /\ attempts = [t \in Tasks |-> [failed |-> 0, last |-> NULL]]
    /\ btask = [st |-> "none", retries |-> 0, countdown |-> 0]
    /\ reqs = <<>>
    /\ PoolStart
    /\ cred_path \in BOOLEAN
    /\ HooksIdle
    /\ SweepIdle
    /\ WrIdle
    /\ MiscIdle

NextPool ==
    \E p \in Threads :
        \/ \E key \in AppNames : Begin(p, key)
        \/ CheckCache(p)
        \/ CheckCred(p)
        \/ Probe(p)
        \/ InitializeApp(p)
        \/ GetDefaultApp(p)
        \/ GetApp(p)
        \/ Store(p)

SpecPool == InitPool /\ [][NextPool]_vars

(***************************************************************************)
(* The webhook dispatcher alone.                                           *)
(***************************************************************************)
InitWebhook ==
    /\ notifs = <<>>
    /\ ledger = <<>>
    /\ devices = [d \in Devices |-> TRUE]
    /\ task = [t \in Tasks |-> [st |-> "none", retries |-> 0, countdown |-> 0]]
    /\ attempts = [t \in Tasks |-> [failed |-> 0, last |-> NULL]]
    /\ btask = [st |-> "none", retries |-> 0, countdown |-> 0]
    /\ reqs = <<>>
    /\ PoolIdle
    /\ HooksStart({1})
    /\ SweepIdle
    /\ WrIdle
    /\ MiscIdle

NextWebhook ==
    \/ dispatch_webhook
    \/ dispatch_webhook_async
    \/ \E s \in Slots : \E c \in flight[s] : DeliverOk(s, c)
    \/ \E s \in Slots : \E c \in flight[s] : DeliverFailed(s, c)
    \/ \E w \in Webhooks : Reactivate(w)

SpecWebhook == InitWebhook /\ [][NextWebhook]_vars

\* A client with two endpoints: endpoint 1 subscribed to both events, endpoint
\* 2 to notification.sent; no manual reactivation.
InitWebhook2 ==
    /\ notifs = <<>>
    /\ ledger = <<>>
    /\ devices = [d \in Devices |-> TRUE]
    /\ task = [t \in Tasks |-> [st |-> "none", retries |-> 0, countdown |-> 0]]
    /\ attempts = [t \in Tasks |-> [failed |-> 0, last |-> NULL]]
    /\ btask = [st |-> "none", retries |-> 0, countdown |-> 0]
    /\ reqs = <<>>
    /\ PoolIdle
    /\ HooksStart({1, 2})
    /\ SweepIdle
    /\ WrIdle
    /\ MiscIdle

NextWebhook2 ==
    \/ dispatch_webhook
    \/ dispatch_webhook_async
    \/ \E s \in Slots : \E c \in flight[s] : DeliverOk(s, c)
    \/ \E s \in Slots : \E c \in flight[s] : DeliverFailed(s, c)

SpecWebhook2 == InitWebhook2 /\ [][NextWebhook2]_vars

\* Sequential deliveries: a client with one or with two endpoints, and a
\* dispatch call starts only when the deliveries of the earlier calls have
\* all finished; no manual reactivation.
InitWebhookSeq ==
    /\ notifs = <<>>
    /\ ledger = <<>>
    /\ devices = [d \in Devices |-> TRUE]
    /\ task = [t \in Tasks |-> [st |-> "none", retries |-> 0, countdown |-> 0]]
    /\ attempts = [t \in Tasks |-> [failed |-> 0, last |-> NULL]]
    /\ btask = [st |-> "none", retries |-> 0, countdown |-> 0]
    /\ reqs = <<>>
    /\ PoolIdle
    /\ \/ HooksStart({1})
       \/ HooksStart({1, 2})
    /\ SweepIdle
    /\ WrIdle
    /\ MiscIdle

Quiet == \A s \in Slots : flight[s] = {}

NextWebhookSeq ==
    \/ Quiet /\ dispatch_webhook
    \/ Quiet /\ dispatch_webhook_async
    \/ \E s \in Slots : \E c \in flight[s] : DeliverOk(s, c)
    \/ \E s \in Slots : \E c \in flight[s] : DeliverFailed(s, c)

SpecWebhookSeq == InitWebhookSeq /\ [][NextWebhookSeq]_vars

(***************************************************************************)
(* Async task pipeline: send_notification_async.                           *)
(***************************************************************************)
\* @shared_task(bind=True, max_retries=5)
max_retries == 5

\* A slip: the delay grows by the base delay with every retry.
exponential_backoff_linear(retries) == 30 * (retries + 1)

\* _exponential_backoff(retries)
exponential_backoff(retries) == 30 * (2 ^ retries)

\* Task t sends notification NotifOf(t) to device DeviceOf(t).
NotifOf(t) == t
DeviceOf(t) == t

\* Celery's Task.retry as called at the end of the except block: a further
\* attempt is scheduled with retries + 1 unless retries + 1 exceeds
\* max_retries, in which case exc is re-raised and the task ends.
Retry(tk, countdown) ==
    IF tk.retries + 1 > max_retries
    THEN [tk EXCEPT !.st = "permanently_failed"]
    ELSE [st |-> "retrying", retries |-> tk.retries + 1, countdown |-> countdown]

\* The defaults of the upsert in the try block (the send returned).
SentDefaults == [delivered_at |-> "now", status |-> "sent"]

\* The try block of send_notification_async when the provider send returns:
\* the ledger row is upserted as sent and the Notification is updated.
AttemptSent(t) ==
    /\ ledger' = UpdateOrCreate(ledger, NotifOf(t), DeviceOf(t), SentDefaults)
    /\ notifs' = [notifs EXCEPT ![NotifOf(t)] =
                     [@ EXCEPT !.retry_count = task[t].retries,
                               !.status = "sent"]]
    /\ task' = [task EXCEPT ![t].st = "sent"]
    /\ attempts' = [attempts EXCEPT ![t].last = "ok"]

\* The status left by the except block: failed once
\* self.request.retries >= self.max_retries - 1.
StatusAfterFailure(old, retries) ==
    IF retries >= max_retries - 1 THEN "failed" ELSE old

\* The except block of send_notification_async for an exception with text e:
\* ledger row upserted as failed (an error of the upsert is swallowed),
\* retry_count updated, status possibly failed, then self.retry.
AttemptFailed(t, e) ==
    /\ ledger' = IF UocRaises(ledger, NotifOf(t), DeviceOf(t)) THEN ledger
                 ELSE UpdateOrCreate(ledger, NotifOf(t), DeviceOf(t),
                          [status |-> "failed", error_message |-> e])
    /\ notifs' = [notifs EXCEPT ![NotifOf(t)] =
                     [@ EXCEPT !.retry_count = task[t].retries + 1,
                               !.status = StatusAfterFailure(@, task[t].retries)]]
    /\ task' = [task EXCEPT ![t] =
                   Retry(@, exponential_backoff(task[t].retries))]
    /\ attempts' = [attempts EXCEPT ![t] = [failed |-> @.failed + 1, last |-> e]]

\* FirebaseProject.objects.get(pk=firebase_project_id, is_active=True) raises
\* DoesNotExist when the tenant has no active credential.
ResolutionErrors == {"DoesNotExist"}

\* One run of send_notification_async by a worker, the first try or a retry.
\* out is what the try block does up to the send: the send returns ("ok"),
\* the send raises (an error text), or the tenant lookup raises. An exception
\* of the upsert in the try block reaches the same except block.
Attempt(t) ==
    /\ task[t].st \in {"queued", "retrying"}
    /\ \E out \in {"ok"} \cup Errors \cup ResolutionErrors :
           LET exc == IF out = "ok" /\ UocRaises(ledger, NotifOf(t), DeviceOf(t))
                      THEN "MultipleObjectsReturned" ELSE out
           IN  IF exc = "ok" THEN AttemptSent(t) ELSE AttemptFailed(t, exc)
    /\ UNCHANGED <<devices, sendVars, poolVars, hookVars, sweepVars, wr, miscVars>>

InitRetry ==
    /\ notifs = [n \in 1..NumTasks |-> [status |-> "pending", retry_count |-> 0]]
    /\ ledger = <<>>
    /\ devices = [d \in Devices |-> TRUE]
    /\ task = [t \in Tasks |-> [st |-> "queued", retries |-> 0, countdown |-> 0]]
    /\ attempts = [t \in Tasks |-> [failed |-> 0, last |-> NULL]]
    /\ btask = [st |-> "none", retries |-> 0, countdown |-> 0]
    /\ reqs = <<>>
    /\ PoolIdle
    /\ HooksIdle
    /\ SweepIdle
    /\ WrIdle
    /\ MiscIdle

NextRetry == \E t \in Tasks : Attempt(t)

SpecRetry == InitRetry /\ [][NextRetry]_vars

(***************************************************************************)
(* Concurrent writers of the ledger: attempts of send_notification_async   *)
(* for the same notification that overlap (a retry or a redelivery running *)
(* while an earlier attempt has not finished). update_or_create is a       *)
(* locked get followed, when no row matches, by a create; the model has no *)
(* unique constraint on (notification, device).                            *)
(***************************************************************************)
\* The pairs the overlapping attempts write.
UpsertNotif == 1
UpsertDevices == {1, 2}

\* The defaults of the attempt's upsert: the send returned, or raised e.
DefaultsOf(out) ==
    IF out = "ok" THEN SentDefaults
    ELSE [status |-> "failed", error_message |-> out]

\* update_or_create, first part: select_for_update().get(notification, device).
\* More than one row: MultipleObjectsReturned (the task's except blocks take
\* it). One row: it is locked, the defaults are set and it is saved. No row:
\* nothing is locked and the create follows as a step of its own.
UpsertGet(w, d, out) ==
    /\ wr[w].pc = "idle"
    /\ wr[w].calls < MaxUpserts
    /\ IF UocRaises(ledger, UpsertNotif, d) THEN
           /\ ledger' = ledger
           /\ wr' = [wr EXCEPT ![w].calls = @ + 1]
       ELSE IF Matching(ledger, UpsertNotif, d) # {} THEN
           /\ ledger' = UpdateOrCreate(ledger, UpsertNotif, d, DefaultsOf(out))
           /\ wr' = [wr EXCEPT ![w].calls = @ + 1]
       ELSE
           /\ ledger' = ledger
           /\ wr' = [wr EXCEPT ![w] = [pc |-> "create", n |-> UpsertNotif, d |-> d,
                                       out |-> out, calls |-> @.calls + 1]]

UpsertBegin(w) ==
    /\ \E d \in UpsertDevices, out \in {"ok"} \cup Errors : UpsertGet(w, d, out)
    /\ UNCHANGED <<notifs, devices, retryVars, sendVars, poolVars, hookVars, sweepVars, miscVars>>

\* update_or_create, second part: create(notification, device, **defaults).
UpsertCreate(w) ==
    /\ wr[w].pc = "create"
    /\ ledger' = Append(ledger, SetFields(NewLog(wr[w].n, wr[w].d), DefaultsOf(wr[w].out)))
    /\ wr' = [wr EXCEPT ![w] = [pc |-> "idle", n |-> 0, d |-> 0, out |-> NULL,
                                calls |-> @.calls]]
    /\ UNCHANGED <<notifs, devices, retryVars, sendVars, poolVars, hookVars, sweepVars, miscVars>>

InitUpsert ==
    /\ notifs = <<[status |-> "pending", retry_count |-> 0]>>
    /\ ledger = <<>>
    /\ devices = [d \in Devices |-> TRUE]
    /\ task = [t \in Tasks |-> [st |-> "none", retries |-> 0, countdown |-> 0]]
    /\ attempts = [t \in Tasks |-> [failed |-> 0, last |-> NULL]]
    /\ btask = [st |-> "none", retries |-> 0, countdown |-> 0]
    /\ reqs = <<>>
    /\ PoolIdle
    /\ HooksIdle
    /\ SweepIdle
    /\ WrIdle
    /\ MiscIdle

NextUpsert ==
    \/ \E w \in Writers : UpsertBegin(w)
    \/ \E w \in Writers : UpsertCreate(w)

SpecUpsert == InitUpsert /\ [][NextUpsert]_vars

(***************************************************************************)
(* The provider (firebase_admin.messaging) as the senders see it.          *)
(***************************************************************************)

\* QuerySet order of a set of device pks: ascending pk.
RECURSIVE SeqOfSet(_)
SeqOfSet(S) ==
    IF S = {} THEN <<>>
    ELSE LET m == CHOOSE x \in S : \A y \in S : x <= y
         IN  <<m>> \o SeqOfSet(S \ {m})

\* Device.objects.filter(profile__phone_number__in=phones, is_active=True)
ActiveDevices(phones) ==
    SeqOfSet({d \in Devices : ProfileOf(d) \in phones /\ devices[d]})

\* One SendResponse of a BatchResponse: success, or the exception of the token.
SendResponses ==
    {[success |-> TRUE, exception |-> NULL]} \cup
    {[success |-> FALSE, exception |-> e] : e \in Errors}

\* What a provider call with N tokens can do: raise an exception with text e,
\* or return one response per token, in token order. A single send and a topic
\* send return a message id or raise.
MulticastResults(N) ==
    {[raised |-> e, responses |-> <<>>] : e \in Errors} \cup
    {[raised |-> NULL, responses |-> r] : r \in [1..N -> SendResponses]}

SingleResults ==
    {[raised |-> e, responses |-> <<>>] : e \in Errors} \cup
    {[raised |-> NULL, responses |-> <<>>]}

\* FCMService(firebase_project=...) returns a client or raises.
CtorResults == {"ok", "ValueError"}

\* A slip in the index of the response read for the i-th device.
individual_first(responses, i) ==
    IF i <= Len(responses) /\ ~responses[1].success
    THEN [status |-> "failed", error_message |-> responses[1].exception]
    ELSE [status |-> "sent", error_message |-> NULL]

\* The per-device outcome computed from response.responses[i] by every
\* multicast caller: failed with the captured exception text if the i-th
\* response is not a success, sent otherwise.
individual(responses, i) ==
    IF i <= Len(responses) /\ ~responses[i].success
    THEN [status |-> "failed", error_message |-> responses[i].exception]
    ELSE [status |-> "sent", error_message |-> NULL]

\* The row written for the i-th device after a multicast.
MulticastLog(n, devs, responses, i) ==
    [notification |-> n, device |-> devs[i],
     status |-> individual(responses, i).status,
     error_message |-> individual(responses, i).error_message,
     delivered_at |-> IF individual(responses, i).status = "sent" THEN "now" ELSE NULL]

\* for i, device in enumerate(devices): NotificationDeliveryLog.objects.create(...)
CreateLogs(l, n, devs, responses) ==
    l \o [i \in 1..Len(devs) |-> MulticastLog(n, devs, responses, i)]

\* NotificationDeliveryLog.objects.create(notification, device=devices[0],
\* delivered_at=now, status="sent") after a single send.
SingleLog(n, d) ==
    [notification |-> n, device |-> d, status |-> "sent",
     error_message |-> NULL, delivered_at |-> "now"]

\* Notification.objects.create(..., status="sent", sent_at=now)
SentNotification == [status |-> "sent", retry_count |-> 0]

\* History record of one handler run.
Req(view, phones, http, notif, mode, tokens, res, webhook) ==
    [view |-> view, phones |-> phones, http |-> http, notif |-> notif, mode |-> mode,
     tokens |-> tokens, raised |-> res.raised, responses |-> res.responses,
     webhook |-> webhook]

NoResult == [raised |-> NULL, responses |-> <<>>]
CtorRaised == [raised |-> "ValueError", responses |-> <<>>]

(***************************************************************************)
(* Synchronous send views.                                                 *)
(***************************************************************************)

\* A slip: the Notification is created before the devices are looked at.
SendNotificationView_create_first(phone, ctor, res) ==
    /\ notifs' = Append(notifs, SentNotification)
    /\ ledger' = ledger
    /\ reqs' = Append(reqs, Req("send", {phone},
                               IF Len(ActiveDevices({phone})) = 0 THEN 404 ELSE 500,
                               Len(notifs) + 1, "none", <<>>, NoResult, FALSE))

\* A slip: the webhook is dispatched before the send, whatever the send does.
SendNotificationView_webhook_first(phone, ctor, res) ==
    LET devs == ActiveDevices({phone})
        n == Len(notifs) + 1
        mode == IF Len(devs) = 1 THEN "single" ELSE "multicast"
    IN
    IF Len(devs) = 0 THEN
        /\ reqs' = Append(reqs, Req("send", {phone}, 404, 0, "none", <<>>, NoResult, FALSE))
        /\ UNCHANGED <<notifs, ledger>>
    ELSE IF ctor # "ok" THEN
        /\ reqs' = Append(reqs, Req("send", {phone}, 500, 0, "none", <<>>, CtorRaised, FALSE))
        /\ UNCHANGED <<notifs, ledger>>
    ELSE
        /\ notifs' = Append(notifs, SentNotification)
        /\ IF res.raised # NULL THEN
               /\ ledger' = ledger
               /\ reqs' = Append(reqs, Req("send", {phone}, 500, n, mode, devs, res, TRUE))
           ELSE
               /\ ledger' = IF Len(devs) = 1
                            THEN Append(ledger, SingleLog(n, devs[1]))
                            ELSE CreateLogs(ledger, n, devs, res.responses)
               /\ reqs' = Append(reqs, Req("send", {phone}, 200, n, mode, devs, res, TRUE))

\* SendNotificationView.post for a phone number with a profile.
SendNotificationView(phone, ctor, res) ==
    LET devs == ActiveDevices({phone})
        n == Len(notifs) + 1
        mode == IF Len(devs) = 1 THEN "single" ELSE "multicast"
    IN
    IF Len(devs) = 0 THEN
        /\ reqs' = Append(reqs, Req("send", {phone}, 404, 0, "none", <<>>, NoResult, FALSE))
        /\ UNCHANGED <<notifs, ledger>>
    ELSE IF ctor # "ok" THEN
        /\ reqs' = Append(reqs, Req("send", {phone}, 500, 0, "none", <<>>, CtorRaised, FALSE))
        /\ UNCHANGED <<notifs, ledger>>
    ELSE
        /\ notifs' = Append(notifs, SentNotification)
        /\ IF res.raised # NULL THEN
               /\ ledger' = ledger
               /\ reqs' = Append(reqs, Req("send", {phone}, 500, n, mode, devs, res, FALSE))
           ELSE
               /\ ledger' = IF Len(devs) = 1
                            THEN Append(ledger, SingleLog(n, devs[1]))
                            ELSE CreateLogs(ledger, n, devs, res.responses)
               /\ reqs' = Append(reqs, Req("send", {phone}, 200, n, mode, devs, res, TRUE))

\* A slip: a multicast with a failed recipient is answered as a failed send.
BulkSendNotificationView_strict(phones, ctor, res) ==
    LET devs == ActiveDevices(phones)
        n == Len(notifs) + 1
        ok == /\ ctor = "ok"
              /\ res.raised = NULL
              /\ \A k \in 1..Len(res.responses) : res.responses[k].success
    IN
    IF Len(devs) = 0 THEN
        /\ reqs' = Append(reqs, Req("bulk", phones, 404, 0, "none", <<>>, NoResult, FALSE))
        /\ UNCHANGED <<notifs, ledger>>
    ELSE IF ~ok THEN
        /\ reqs' = Append(reqs, Req("bulk", phones, 500, 0, "multicast", devs, res, FALSE))
        /\ UNCHANGED <<notifs, ledger>>
    ELSE
        /\ notifs' = Append(notifs, SentNotification)
        /\ ledger' = CreateLogs(ledger, n, devs, res.responses)
        /\ reqs' = Append(reqs, Req("bulk", phones, 200, n, "multicast", devs, res, FALSE))

\* BulkSendNotificationView.post: always a multicast; the Notification is
\* created after the send returned.
BulkSendNotificationView(phones, ctor, res) ==
    LET devs == ActiveDevices(phones)
        n == Len(notifs) + 1
    IN
    IF Len(devs) = 0 THEN
        /\ reqs' = Append(reqs, Req("bulk", phones, 404, 0, "none", <<>>, NoResult, FALSE))
        /\ UNCHANGED <<notifs, ledger>>
    ELSE IF ctor # "ok" THEN
        /\ reqs' = Append(reqs, Req("bulk", phones, 500, 0, "none", <<>>, CtorRaised, FALSE))
        /\ UNCHANGED <<notifs, ledger>>
    ELSE IF res.raised # NULL THEN
        /\ reqs' = Append(reqs, Req("bulk", phones, 500, 0, "multicast", devs, res, FALSE))
        /\ UNCHANGED <<notifs, ledger>>
    ELSE
        /\ notifs' = Append(notifs, SentNotification)
        /\ ledger' = CreateLogs(ledger, n, devs, res.responses)
        /\ reqs' = Append(reqs, Req("bulk", phones, 200, n, "multicast", devs, res, FALSE))

\* TemplateSendView.post for an existing template and a phone number with a
\* profile: as SendNotificationView on the rendered content, no webhook.
TemplateSendView(phone, ctor, res) ==
    LET devs == ActiveDevices({phone})
        n == Len(notifs) + 1
        mode == IF Len(devs) = 1 THEN "single" ELSE "multicast"
    IN
    IF Len(devs) = 0 THEN
        /\ reqs' = Append(reqs, Req("template", {phone}, 404, 0, "none", <<>>, NoResult, FALSE))
        /\ UNCHANGED <<notifs, ledger>>
    ELSE IF ctor # "ok" THEN
        /\ reqs' = Append(reqs, Req("template", {phone}, 500, 0, "none", <<>>, CtorRaised, FALSE))
        /\ UNCHANGED <<notifs, ledger>>
    ELSE
        /\ notifs' = Append(notifs, SentNotification)
        /\ IF res.raised # NULL THEN
               /\ ledger' = ledger
               /\ reqs' = Append(reqs, Req("template", {phone}, 500, n, mode, devs, res, FALSE))
           ELSE
               /\ ledger' = IF Len(devs) = 1
                            THEN Append(ledger, SingleLog(n, devs[1]))
                            ELSE CreateLogs(ledger, n, devs, res.responses)
               /\ reqs' = Append(reqs, Req("template", {phone}, 200, n, mode, devs, res, FALSE))

\* TopicNotificationView.post: the Notification is created after the send
\* returned; a topic send has no device and writes no ledger row.
TopicNotificationView(ctor, res) ==
    LET n == Len(notifs) + 1 IN
    IF ctor # "ok" THEN
        /\ reqs' = Append(reqs, Req("topic", {}, 500, 0, "none", <<>>, CtorRaised, FALSE))
        /\ UNCHANGED <<notifs, ledger>>
    ELSE IF res.raised # NULL THEN
        /\ reqs' = Append(reqs, Req("topic", {}, 500, 0, "topic", <<>>, res, FALSE))
        /\ UNCHANGED <<notifs, ledger>>
    ELSE
        /\ notifs' = Append(notifs, SentNotification)
        /\ ledger' = ledger
        /\ reqs' = Append(reqs, Req("topic", {}, 200, n, "topic", <<>>, res, FALSE))

\* The provider results a view can meet for its active devices.
ResultsFor(devs) ==
    IF Len(devs) = 1 THEN SingleResults ELSE MulticastResults(Len(devs))

SendRequest ==
    /\ Len(reqs) < MaxRequests
    /\ \E phone \in Profiles, ctor \in CtorResults :
         \E res \in ResultsFor(ActiveDevices({phone})) :
            SendNotificationView(phone, ctor, res)
    /\ UNCHANGED <<devices, retryVars, btask, poolVars, hookVars, sweepVars, wr, miscVars>>

BulkRequest ==
    /\ Len(reqs) < MaxRequests
    /\ \E phones \in (SUBSET Profiles) \ {{}}, ctor \in CtorResults :
         \E res \in MulticastResults(Len(ActiveDevices(phones))) :
            BulkSendNotificationView(phones, ctor, res)
    /\ UNCHANGED <<devices, retryVars, btask, poolVars, hookVars, sweepVars, wr, miscVars>>

TemplateRequest ==
    /\ Len(reqs) < MaxRequests
    /\ \E phone \in Profiles, ctor \in CtorResults :
         \E res \in ResultsFor(ActiveDevices({phone})) :
            TemplateSendView(phone, ctor, res)
    /\ UNCHANGED <<devices, retryVars, btask, poolVars, hookVars, sweepVars, wr, miscVars>>

TopicRequest ==
    /\ Len(reqs) < MaxRequests
    /\ \E ctor \in CtorResults, res \in SingleResults :
            TopicNotificationView(ctor, res)
    /\ UNCHANGED <<devices, retryVars, btask, poolVars, hookVars, sweepVars, wr, miscVars>>

(***************************************************************************)
(* Async task pipeline: send_bulk_notification_async.                      *)
(***************************************************************************)

\* The bulk task's notification and the device_ids it was enqueued with.
BulkNotif == 1
BulkDeviceIds == Devices

\* list(Device.objects.filter(pk__in=device_ids, is_active=True))
BulkDevices == SeqOfSet({d \in BulkDeviceIds : devices[d]})

\* The loop over enumerate(devices) of the bulk task from index i on: one
\* update_or_create per device; an exception of update_or_create leaves the
\* loop with the rows written so far.
RECURSIVE BulkUpsert(_, _, _, _, _)
BulkUpsert(l, n, devs, responses, i) ==
    IF i > Len(devs) THEN [ledger |-> l, raised |-> FALSE]
    ELSE IF UocRaises(l, n, devs[i]) THEN [ledger |-> l, raised |-> TRUE]
    ELSE BulkUpsert(
            UpdateOrCreate(l, n, devs[i],
                [delivered_at |-> IF individual(responses, i).status = "sent"
                                  THEN "now" ELSE NULL,
                 status |-> individual(responses, i).status,
                 error_message |-> individual(responses, i).error_message]),
            n, devs, responses, i + 1)

\* One run of send_bulk_notification_async by a worker: no active device ends
\* the task; an exception (client construction, multicast, upsert) goes to
\* self.retry; otherwise every device's row is upserted and the task ends.
BulkTaskAttempt(ctor, res) ==
    LET devs == BulkDevices
        up == BulkUpsert(ledger, BulkNotif, devs, res.responses, 1)
    IN
    /\ btask.st \in {"queued", "retrying"}
    /\ IF Len(devs) = 0 THEN
           /\ btask' = [btask EXCEPT !.st = "no_devices"]
           /\ ledger' = ledger
       ELSE IF ctor # "ok" \/ res.raised # NULL THEN
           /\ btask' = Retry(btask, exponential_backoff(btask.retries))
           /\ ledger' = ledger
       ELSE
           /\ ledger' = up.ledger
           /\ btask' = IF up.raised
                       THEN Retry(btask, exponential_backoff(btask.retries))
                       ELSE [btask EXCEPT !.st = "completed"]
    /\ UNCHANGED notifs

\* The history record of a bulk task attempt.
BulkTaskReq(ctor, res) ==
    IF Len(BulkDevices) = 0
    THEN Req("bulk_task", {}, 0, BulkNotif, "none", <<>>, NoResult, FALSE)
    ELSE IF ctor # "ok"
    THEN Req("bulk_task", {}, 0, BulkNotif, "none", <<>>, CtorRaised, FALSE)
    ELSE Req("bulk_task", {}, 0, BulkNotif, "multicast", BulkDevices, res, FALSE)

BulkTaskRun ==
    /\ Len(reqs) < MaxRequests
    /\ \E ctor \in CtorResults :
         \E res \in MulticastResults(Len(BulkDevices)) :
            /\ BulkTaskAttempt(ctor, res)
            /\ reqs' = Append(reqs, BulkTaskReq(ctor, res))
    /\ UNCHANGED <<devices, retryVars, poolVars, hookVars, sweepVars, wr, miscVars>>

(***************************************************************************)
(* The senders together: the views and the bulk task share the ledger.     *)
(***************************************************************************)
InitSend ==
    /\ notifs = <<[status |-> "pending", retry_count |-> 0]>>
    /\ ledger = <<>>
    /\ devices \in [Devices -> BOOLEAN]
    /\ task = [t \in Tasks |-> [st |-> "none", retries |-> 0, countdown |-> 0]]
    /\ attempts = [t \in Tasks |-> [failed |-> 0, last |-> NULL]]
    /\ btask = [st |-> "queued", retries |-> 0, countdown |-> 0]
    /\ reqs = <<>>
    /\ PoolIdle
    /\ HooksIdle
    /\ SweepIdle
    /\ WrIdle
    /\ MiscIdle

NextSend ==
    \/ SendRequest
    \/ BulkRequest
    \/ TemplateRequest
    \/ TopicRequest
    \/ BulkTaskRun

SpecSend == InitSend /\ [][NextSend]_vars

(***************************************************************************)
(* The scheduled sweep: process_scheduled_notifications, run every minute  *)
(* by the beat scheduler.                                                  *)
(***************************************************************************)
\* A null DateTimeField.
None == 0 - 1

\* A slip: the query does not filter on next_run_at.
Due_any_time(now) ==
    LET R == {r \in Rows : sched[r].status \in {"pending", "active"}}
        S == SeqOfSet(R)
    IN  [i \in 1..Len(S) |-> [r |-> S[i], obj |-> sched[S[i]]]]

\* ScheduledNotification.repeat_interval and the timedelta added for it, in days.
Repeats == {"none", "daily", "weekly", "monthly"}

\* A slip: a calendar month of 31 days.
Interval_month31(repeat_interval) ==
    CASE repeat_interval = "daily" -> 1
      [] repeat_interval = "weekly" -> 7
      [] repeat_interval = "monthly" -> 31

Interval(repeat_interval) ==
    CASE repeat_interval = "daily" -> 1
      [] repeat_interval = "weekly" -> 7
      [] repeat_interval = "monthly" -> 30

\* The rows a client can have created: pending, next_run_at = scheduled_at,
\* no occurrence yet; max_occurrences 0 stands for null; the target is a
\* topic, the phone numbers of profiles, or nothing.
NewRows ==
    [status : {"pending"}, next_run_at : 0..1, last_sent_at : {None},
     occurrence_count : {0}, max_occurrences : {0, 2},
     repeat_interval : Repeats, topic : BOOLEAN,
     phone_numbers : {{}, {1}, {2}}]

\* A slip: the query does not filter on status.
Due_any_status(now) ==
    LET R == {r \in Rows : /\ sched[r].next_run_at # None
                           /\ sched[r].next_run_at <= now}
        S == SeqOfSet(R)
    IN  [i \in 1..Len(S) |-> [r |-> S[i], obj |-> sched[S[i]]]]

\* ScheduledNotification.objects.filter(status__in=['pending', 'active'],
\* next_run_at__lte=now): the objects as loaded when the loop starts.
Due(now) ==
    LET R == {r \in Rows : /\ sched[r].status \in {"pending", "active"}
                           /\ sched[r].next_run_at # None
                           /\ sched[r].next_run_at <= now}
        S == SeqOfSet(R)
    IN  [i \in 1..Len(S) |-> [r |-> S[i], obj |-> sched[S[i]]]]

\* now = timezone.now(); due = ...; processed = 0; the query is evaluated when
\* the for loop starts.
SweepStart(s) ==
    /\ sweep[s].pc \in {"idle", "done"}
    /\ sweep' = [sweep EXCEPT ![s] = [pc |-> "loop", now |-> clock,
                                      due |-> Due(clock), processed |-> 0]]
    /\ shist' = [shist EXCEPT !.loaded[s] = {Due(clock)[i].r : i \in 1..Len(Due(clock))},
                              !.raised[s] = {},
                              !.saved[s] = {}]
    /\ UNCHANGED <<sched, clock, notifs, ledger>>
    /\ UNCHANGED nonSweep

\* A slip: the cap is compared with > instead of >=.
Advance_late(obj, now) ==
    LET count == obj.occurrence_count + 1
        o == [obj EXCEPT !.last_sent_at = now, !.occurrence_count = count]
    IN
    IF obj.max_occurrences # 0 /\ count > obj.max_occurrences
    THEN [o EXCEPT !.status = "completed", !.next_run_at = None]
    ELSE IF obj.repeat_interval = "none"
    THEN [o EXCEPT !.status = "completed", !.next_run_at = None]
    ELSE [o EXCEPT !.status = "active",
                   !.next_run_at = now + Interval(obj.repeat_interval)]

\* A slip: the cap is not looked at.
Advance_uncapped(obj, now) ==
    LET count == obj.occurrence_count + 1
        o == [obj EXCEPT !.last_sent_at = now, !.occurrence_count = count]
    IN
    IF obj.repeat_interval = "none"
    THEN [o EXCEPT !.status = "completed", !.next_run_at = None]
    ELSE [o EXCEPT !.status = "active",
                   !.next_run_at = now + Interval(obj.repeat_interval)]

\* The object after "Update scheduled notification state": last_sent_at,
\* occurrence_count, then completed or active with the next run.
Advance(obj, now) ==
    LET count == obj.occurrence_count + 1
        o == [obj EXCEPT !.last_sent_at = now, !.occurrence_count = count]
    IN
    IF obj.max_occurrences # 0 /\ count >= obj.max_occurrences
    THEN [o EXCEPT !.status = "completed", !.next_run_at = None]
    ELSE IF obj.repeat_interval = "none"
    THEN [o EXCEPT !.status = "completed", !.next_run_at = None]
    ELSE [o EXCEPT !.status = "active",
                   !.next_run_at = now + Interval(obj.repeat_interval)]

\* except Exception: scheduled.status = 'paused' on the loaded object.
Paused(obj) == [obj EXCEPT !.status = "paused"]

\* A slip: the exception leaves the loop, the rows after it are not visited.
Remaining_abort(due, raised) == IF raised THEN <<>> ELSE Tail(due)

\* The try/except is inside the for loop: after either branch the loop goes
\* on with the next loaded object.
Remaining(due, raised) == Tail(due)

\* The devices the row is sent to: none for a topic send or an empty target.
SweepDevices(obj) ==
    IF obj.topic THEN <<>> ELSE ActiveDevices(obj.phone_numbers)

\* The provider results the body of the loop can meet for the row.
SweepResults(obj) ==
    IF obj.topic \/ Len(SweepDevices(obj)) = 1 THEN SingleResults
    ELSE IF Len(SweepDevices(obj)) = 0 THEN {NoResult}
    ELSE MulticastResults(Len(SweepDevices(obj)))

\* The body of the loop up to the provider call for the loaded object obj:
\* pre is the outcome of rendering, tenant resolution and FCMService(...),
\* res the outcome of the provider call. Gives the tables after it and
\* whether an exception left the try block.
SweepSend(obj, pre, res) ==
    LET devs == SweepDevices(obj)
        n == Len(notifs) + 1
        same(raised, sent) == [notifs |-> notifs, ledger |-> ledger,
                               raised |-> raised, sent |-> sent]
    IN
    IF pre # "ok" THEN same(TRUE, FALSE)
    ELSE IF obj.topic THEN same(res.raised # NULL, res.raised = NULL)
    ELSE IF Len(devs) = 0 THEN same(FALSE, FALSE)
    ELSE IF res.raised # NULL
    THEN [notifs |-> Append(notifs, SentNotification), ledger |-> ledger,
          raised |-> TRUE, sent |-> FALSE]
    ELSE [notifs |-> Append(notifs, SentNotification),
          ledger |-> IF Len(devs) = 1
                     THEN Append(ledger, SingleLog(n, devs[1]))
                     ELSE CreateLogs(ledger, n, devs, res.responses),
          raised |-> FALSE, sent |-> TRUE]

\* One iteration of "for scheduled in due": the try block and, when it raised,
\* the except block; scheduled.save() writes every field of the loaded object.
SweepRow(s) ==
    /\ sweep[s].pc = "loop"
    /\ sweep[s].due # <<>>
    /\ LET r == Head(sweep[s].due).r
           obj == Head(sweep[s].due).obj
       IN  \E pre \in CtorResults : \E res \in SweepResults(obj) :
           LET out == SweepSend(obj, pre, res) IN
           /\ notifs' = out.notifs
           /\ ledger' = out.ledger
           /\ sched' = [sched EXCEPT ![r] = IF out.raised THEN Paused(obj)
                                            ELSE Advance(obj, sweep[s].now)]
           /\ sweep' = [sweep EXCEPT ![s].due = Remaining(@, out.raised),
                                     ![s].processed = IF out.raised THEN @ ELSE @ + 1]
           /\ shist' = [shist EXCEPT
                          !.raised[s] = IF out.raised THEN @ \cup {r} ELSE @,
                          !.saved[s] = IF out.raised THEN @ ELSE @ \cup {r},
                          !.sends[r] = IF out.sent THEN @ + 1 ELSE @]
    /\ UNCHANGED clock
    /\ UNCHANGED nonSweep

\* return {'processed': processed}
SweepReturn(s) ==
    /\ sweep[s].pc = "loop"
    /\ sweep[s].due = <<>>
    /\ sweep' = [sweep EXCEPT ![s].pc = "done"]
    /\ UNCHANGED <<sched, clock, shist, notifs, ledger>>
    /\ UNCHANGED nonSweep

\* Time passes.
Tick ==
    /\ clock < MaxClock
    /\ clock' = clock + 1
    /\ UNCHANGED <<sched, sweep, shist, notifs, ledger>>
    /\ UNCHANGED nonSweep

\* The rows the second row of the table is drawn from: due at once, no cap,
\* sent to the one device of profile 2.
OtherRows ==
    {x \in NewRows : /\ x.next_run_at = 0
                     /\ x.max_occurrences = 0
                     /\ x.repeat_interval \in {"none", "daily"}
                     /\ x.phone_numbers = {2}}

\* Two scheduled rows, every device active, one run of the sweep at a time.
InitSweep ==
    /\ notifs = <<>>
    /\ ledger = <<>>
    /\ devices = [d \in Devices |-> TRUE]
    /\ task = [t \in Tasks |-> [st |-> "none", retries |-> 0, countdown |-> 0]]
    /\ attempts = [t \in Tasks |-> [failed |-> 0, last |-> NULL]]
    /\ btask = [st |-> "none", retries |-> 0, countdown |-> 0]
    /\ reqs = <<>>
    /\ PoolIdle
    /\ HooksIdle
    /\ SweepStartState({f \in [{1, 2} -> NewRows] : f[2] \in OtherRows}, {1})
    /\ WrIdle
    /\ MiscIdle

NextSweep ==
    \/ \E s \in Sweepers : SweepStart(s)
    \/ \E s \in Sweepers : SweepRow(s)
    \/ \E s \in Sweepers : SweepReturn(s)
    \/ Tick

SpecSweep == InitSweep /\ [][NextSweep]_vars

\* One scheduled row, due at once and not repeating, and two runs of the task
\* that can overlap: nothing in the task keeps a second worker from starting
\* while the first is in its loop, and the rows are loaded without a lock.
InitSweepOverlap ==
    /\ notifs = <<>>
    /\ ledger = <<>>
    /\ devices = [d \in Devices |-> TRUE]
    /\ task = [t \in Tasks |-> [st |-> "none", retries |-> 0, countdown |-> 0]]
    /\ attempts = [t \in Tasks |-> [failed |-> 0, last |-> NULL]]
    /\ btask = [st |-> "none", retries |-> 0, countdown |-> 0]
    /\ reqs = <<>>
    /\ PoolIdle
    /\ HooksIdle
    /\ SweepStartState({f \in [{1} -> NewRows] :
                            /\ f[1].next_run_at = 0
                            /\ f[1].repeat_interval = "none"}, {1, 2})
    /\ WrIdle
    /\ MiscIdle

SpecSweepOverlap == InitSweepOverlap /\ [][NextSweep]_vars

(***************************************************************************)
(* The periodic task cleanup_stale_tokens over the Device table. Time is   *)
(* in days.                                                                *)
(***************************************************************************)
\* timedelta(days=90)
RetentionDays == 90

\* A slip: the filter leaves out is_active=True.
Stale_any(d, cutoff) == last_seen[d] < cutoff

\* Device.objects.filter(is_active=True, last_seen__lt=cutoff)
Stale(d, cutoff) == devices[d] /\ last_seen[d] < cutoff

\* cleanup_stale_tokens: stale.update(is_active=False) returns the number of
\* rows the filter matched; a queryset update does not touch last_seen.
cleanup_stale_tokens ==
    LET cutoff == clock - RetentionDays
        stale == {d \in Devices : Stale(d, cutoff)}
    IN  /\ cleaned.runs < MaxRuns
        /\ devices' = [d \in Devices |-> IF d \in stale THEN FALSE ELSE devices[d]]
        /\ cleaned' = [runs |-> cleaned.runs + 1,
                       count |-> Cardinality(stale),
                       deactivated |-> cleaned.deactivated \cup
                                          {d \in stale : devices[d]}]
        /\ UNCHANGED <<notifs, ledger, retryVars, sendVars, poolVars, hookVars,
                       sweepVars, wr, last_seen, render, ttask>>

\* A device is saved through the API (DeviceRetrieveUpdateDestroyView):
\* last_seen is auto_now, is_active is what the request says.
SaveDevice(d, active) ==
    /\ devices' = [devices EXCEPT ![d] = active]
    /\ last_seen' = [last_seen EXCEPT ![d] = clock]
    /\ cleaned' = [runs |-> 0, count |-> 0, deactivated |-> {}]
    /\ UNCHANGED <<notifs, ledger, retryVars, sendVars, poolVars, hookVars,
                   sweepVars, wr, render, ttask>>

\* A day passes.
NextDay ==
    /\ clock < RetentionDays + MaxDays
    /\ clock' = clock + 1
    /\ cleaned' = [runs |-> 0, count |-> 0, deactivated |-> {}]
    /\ UNCHANGED <<notifs, ledger, devices, retryVars, sendVars, poolVars,
                   hookVars, sched, sweep, shist, wr, last_seen, render, ttask>>

InitCleanup ==
    /\ notifs = <<>>
    /\ ledger = <<>>
    /\ devices \in [Devices -> BOOLEAN]
    /\ task = [t \in Tasks |-> [st |-> "none", retries |-> 0, countdown |-> 0]]
    /\ attempts = [t \in Tasks |-> [failed |-> 0, last |-> NULL]]
    /\ btask = [st |-> "none", retries |-> 0, countdown |-> 0]
    /\ reqs = <<>>
    /\ PoolIdle
    /\ HooksIdle
    /\ sched = <<>>
    /\ sweep = <<>>
    /\ shist = <<>>
    /\ clock = RetentionDays
    /\ WrIdle
    /\ last_seen \in [Devices -> 0..MaxDays]
    /\ cleaned = [runs |-> 0, count |-> 0, deactivated |-> {}]
    /\ render = [pc |-> "idle"]
    /\ ttask = [st |-> "none", retries |-> 0, countdown |-> 0, failed |-> 0]

NextCleanup ==
    \/ cleanup_stale_tokens
    \/ \E d \in Devices, active \in BOOLEAN : SaveDevice(d, active)
    \/ NextDay

SpecCleanup == InitCleanup /\ [][NextCleanup]_vars

(***************************************************************************)
(* Async task pipeline: send_topic_notification_async, and the three kinds *)
(* of send task side by side, each with a Notification of its own.         *)
(***************************************************************************)
\* @shared_task(bind=True, max_retries=3)
topic_max_retries == 3

\* The Notification of the topic task and the single-device task that runs
\* beside the bulk task (whose Notification is BulkNotif).
TopicNotif == 3
SingleTask == 2

\* A slip: Task.retry that never gives up.
TopicRetry_forever(tk, countdown) ==
    [tk EXCEPT !.st = "retrying", !.countdown = countdown, !.failed = @ + 1]

\* Task.retry at the end of the topic task's except block.
TopicRetry(tk, countdown) ==
    IF tk.retries + 1 > topic_max_retries
    THEN [tk EXCEPT !.st = "permanently_failed", !.failed = @ + 1]
    ELSE [tk EXCEPT !.st = "retrying", !.retries = @ + 1,
                    !.countdown = countdown, !.failed = @ + 1]

\* One run of send_topic_notification_async: the tenant lookup, the client
\* construction or fcm.send_to_topic raises, or the send returns. The except
\* block sets the Notification failed whatever self.request.retries is.
TopicAttempt ==
    /\ ttask.st \in {"queued", "retrying"}
    /\ \E out \in {"ok"} \cup Errors \cup ResolutionErrors :
          IF out = "ok"
          THEN /\ notifs' = [notifs EXCEPT ![TopicNotif].status = "sent"]
               /\ ttask' = [ttask EXCEPT !.st = "sent"]
          ELSE /\ notifs' = [notifs EXCEPT ![TopicNotif].status = "failed"]
               /\ ttask' = TopicRetry(ttask, exponential_backoff(ttask.retries))
    /\ UNCHANGED <<ledger, devices, retryVars, sendVars, poolVars, hookVars,
                   sweepVars, wr, last_seen, cleaned, render>>

\* One run of send_bulk_notification_async.
BulkTask ==
    /\ \E ctor \in CtorResults :
         \E res \in MulticastResults(Len(BulkDevices)) :
            BulkTaskAttempt(ctor, res)
    /\ UNCHANGED <<devices, retryVars, reqs, poolVars, hookVars, sweepVars, wr,
                   miscVars>>

InitTasks ==
    /\ notifs = [n \in 1..TopicNotif |-> [status |-> "pending", retry_count |-> 0]]
    /\ ledger = <<>>
    /\ devices \in {[d \in Devices |-> d = DeviceOf(SingleTask)],
                    [d \in Devices |-> FALSE]}
    /\ task = [t \in Tasks |->
                 [st |-> IF t = SingleTask THEN "queued" ELSE "none",
                  retries |-> 0, countdown |-> 0]]
    /\ attempts = [t \in Tasks |-> [failed |-> 0, last |-> NULL]]
    /\ btask = [st |-> "queued", retries |-> 0, countdown |-> 0]
    /\ reqs = <<>>
    /\ PoolIdle
    /\ HooksIdle
    /\ SweepIdle
    /\ WrIdle
    /\ last_seen = [d \in Devices |-> 0]
    /\ cleaned = [runs |-> 0, count |-> 0, deactivated |-> {}]
    /\ render = [pc |-> "idle"]
    /\ ttask = [st |-> "queued", retries |-> 0, countdown |-> 0, failed |-> 0]

NextTasks ==
    \/ Attempt(SingleTask)
    \/ BulkTask
    \/ TopicAttempt

SpecTasks == InitTasks /\ [][NextTasks]_vars

\* The queue runs every task it holds, the first try and every scheduled
\* retry.
SpecTasksFair ==
    /\ SpecTasks
    /\ WF_vars(Attempt(SingleTask))
    /\ WF_vars(BulkTask)
    /\ WF_vars(TopicAttempt)

(***************************************************************************)
(* A single-device task enqueued for a device, with the token cleanup      *)
(* running between its enqueue, its attempt and its retries.               *)
(***************************************************************************)
InitStale ==
    /\ notifs = [n \in 1..NumTasks |-> [status |-> "pending", retry_count |-> 0]]
    /\ ledger = <<>>
    /\ devices = [d \in Devices |-> TRUE]
    /\ task = [t \in Tasks |->
                 [st |-> IF t = SingleTask THEN "queued" ELSE "none",
                  retries |-> 0, countdown |-> 0]]
    /\ attempts = [t \in Tasks |-> [failed |-> 0, last |-> NULL]]
    /\ btask = [st |-> "none", retries |-> 0, countdown |-> 0]
    /\ reqs = <<>>
    /\ PoolIdle
    /\ HooksIdle
    /\ sched = <<>>
    /\ sweep = <<>>
    /\ shist = <<>>
    /\ clock = RetentionDays
    /\ WrIdle
    /\ last_seen \in [Devices -> 0..1]
    /\ cleaned = [runs |-> 0, count |-> 0, deactivated |-> {}]
    /\ render = [pc |-> "idle"]
    /\ ttask = [st |-> "none", retries |-> 0, countdown |-> 0, failed |-> 0]

NextStale ==
    \/ Attempt(SingleTask)
    \/ cleanup_stale_tokens
    \/ NextDay

SpecStale == InitStale /\ [][NextStale]_vars

(***************************************************************************)
(* Template engine: render_template and render_notification_template.      *)
(* A text is a sequence of characters.                                     *)
(***************************************************************************)
nonRender == <<notifs, ledger, devices, retryVars, sendVars, poolVars, hookVars,
               sweepVars, wr, last_seen, cleaned, ttask>>

\* The characters of the model that \w and \s match.
WordChars == {"a", "b", "m", "n", "x", "1", "7"}
SpaceChars == {" "}

\* Values of the variables and of the default data: a str, an int, or None.
StrV(text) == [t |-> "str", s |-> text, n |-> 0]
IntV(n) == [t |-> "int", s |-> <<>>, n |-> n]
NoneV == [t |-> "none", s |-> <<>>, n |-> 0]

\* str(value) of a str or of a non-negative int.
Digit(n) == <<"0", "1", "2", "3", "4", "5", "6", "7", "8", "9">>[n + 1]
RECURSIVE IntStr(_)
IntStr(n) == IF n < 10 THEN <<Digit(n)>> ELSE IntStr(n \div 10) \o <<Digit(n % 10)>>
Str(value) == IF value.t = "str" THEN value.s ELSE IntStr(value.n)

\* variables.get(key)
Get(variables, key) ==
    IF key \in DOMAIN variables THEN variables[key] ELSE NoneV

\* The first position from i on whose character is not in C.
RECURSIVE Skip(_, _, _)
Skip(s, i, C) == IF i <= Len(s) /\ s[i] \in C THEN Skip(s, i + 1, C) ELSE i

\* A match of r'\{\{(\s*\w+\s*)\}\}' that starts at position i: its last
\* position (0: no match here) and group(1).strip().
Match(s, i) ==
    LET j == Skip(s, i + 2, SpaceChars)
        k == Skip(s, j, WordChars)
        l == Skip(s, k, SpaceChars)
    IN  IF /\ i + 1 <= Len(s) /\ s[i] = "{" /\ s[i + 1] = "{"
           /\ k > j
           /\ l + 1 <= Len(s) /\ s[l] = "}" /\ s[l + 1] = "}"
        THEN [end |-> l + 1, key |-> SubSeq(s, j, k - 1)]
        ELSE [end |-> 0, key |-> <<>>]

\* A slip: an unresolved placeholder is blanked.
replacer_blank(s, i, m, variables) ==
    IF Get(variables, m.key) # NoneV THEN Str(Get(variables, m.key)) ELSE <<>>

\* replacer(match): str(value) when the value is not None, else match.group(0).
replacer(s, i, m, variables) ==
    IF Get(variables, m.key) # NoneV
    THEN Str(Get(variables, m.key))
    ELSE SubSeq(s, i, m.end)

\* re.sub over the text from position i on: leftmost matches, one after the
\* other, each replaced by replacer; the search goes on after the match.
RECURSIVE Sub(_, _, _)
Sub(s, variables, i) ==
    IF i > Len(s) THEN <<>>
    ELSE LET m == Match(s, i) IN
         IF m.end = 0
         THEN <<s[i]>> \o Sub(s, variables, i + 1)
         ELSE replacer(s, i, m, variables) \o Sub(s, variables, m.end + 1)

render_template(template_string, variables) == Sub(template_string, variables, 1)

\* render_notification_template: title and body rendered; data is a copy of
\* template.default_data whose str values are rendered; the template object
\* is read only.
render_notification_template(template, variables) ==
    [title |-> render_template(template.title_template, variables),
     body |-> render_template(template.body_template, variables),
     data |-> [key \in DOMAIN template.default_data |->
                  IF template.default_data[key].t = "str"
                  THEN StrV(render_template(template.default_data[key].s, variables))
                  ELSE template.default_data[key]],
     platform_overrides |-> template.platform_overrides,
     template |-> template]

\* The inputs of the model. A template string is made of pieces: placeholders
\* (name: the variable they name) and other text (name: empty).
Keys == {<<"a">>, <<"b">>}
Pieces ==
    {[text |-> <<"{", "{", "a", "}", "}">>, name |-> <<"a">>],
     [text |-> <<"{", "{", " ", "b", " ", "}", "}">>, name |-> <<"b">>],
     [text |-> <<"{", "{", "m", "}", "}">>, name |-> <<"m">>],
     [text |-> <<"{", "{", "a", " ", "b", "}", "}">>, name |-> <<>>],
     [text |-> <<"x">>, name |-> <<>>],
     [text |-> <<"{">>, name |-> <<>>]}
Values ==
    {StrV(<<"x">>), StrV(<<>>), StrV(<<"{", "{", "b", "}", "}">>), IntV(17), NoneV}
Maps == UNION {[K -> Values] : K \in SUBSET Keys}
TemplateStrings == UNION {[1..n -> Pieces] : n \in 0..MaxPieces}
DefaultDatas ==
    {<<>>,
     [key \in {<<"a">>, <<"n">>} |->
         IF key = <<"a">> THEN StrV(<<"{", "{", " ", "b", " ", "}", "}">>)
         ELSE IntV(7)],
     [key \in {<<"m">>} |-> StrV(<<"{", "{", "a", "}", "}", "x">>)]}

RECURSIVE Text(_)
Text(pieces) ==
    IF pieces = <<>> THEN <<>> ELSE Head(pieces).text \o Text(Tail(pieces))

\* The NotificationTemplate row the inputs stand for.
TemplateOf(r) ==
    [title_template |-> Text(r.pieces),
     body_template |-> <<"{", "{", "b", "}", "}">>,
     default_data |-> r.default_data,
     platform_overrides |-> <<>>]

\* A call of render_template on the template string.
RenderTemplate ==
    /\ render.pc = "start"
    /\ render' = [render EXCEPT !.pc = "rendered",
                     !.out = render_template(Text(render.pieces), render.variables)]
    /\ UNCHANGED nonRender

\* A call of render_template on the result of the first call.
RenderAgain ==
    /\ render.pc = "rendered"
    /\ render' = [render EXCEPT !.pc = "again",
                     !.again = render_template(render.out, render.variables)]
    /\ UNCHANGED nonRender

\* A call of render_notification_template on the template row.
RenderNotificationTemplate ==
    /\ render.pc = "start"
    /\ render' = [render EXCEPT !.pc = "notification",
                     !.rendered = render_notification_template(TemplateOf(render),
                                                               render.variables)]
    /\ UNCHANGED nonRender

InitRender ==
    /\ notifs = <<>>
    /\ ledger = <<>>
    /\ devices = [d \in Devices |-> TRUE]
    /\ task = [t \in Tasks |-> [st |-> "none", retries |-> 0, countdown |-> 0]]
    /\ attempts = [t \in Tasks |-> [failed |-> 0, last |-> NULL]]
    /\ btask = [st |-> "none", retries |-> 0, countdown |-> 0]
    /\ reqs = <<>>
    /\ PoolIdle
    /\ HooksIdle
    /\ SweepIdle
    /\ WrIdle
    /\ last_seen = [d \in Devices |-> 0]
    /\ cleaned = [runs |-> 0, count |-> 0, deactivated |-> {}]
    /\ ttask = [st |-> "none", retries |-> 0, countdown |-> 0, failed |-> 0]
    /\ \E pieces \in TemplateStrings, variables \in Maps, dd \in DefaultDatas :
          render = [pc |-> "start", pieces |-> pieces, variables |-> variables,
                    default_data |-> dd, out |-> <<>>, again |-> <<>>,
                    rendered |-> <<>>]

NextRender ==
    \/ RenderTemplate
    \/ RenderAgain
    \/ RenderNotificationTemplate

SpecRender == InitRender /\ [][NextRender]_vars

(***************************************************************************)
(* Properties of the async retry pipeline.                                 *)
(***************************************************************************)

\* C1: after exactly 5 failed attempts of a send_notification_async task the
\* Notification's status is failed and no further attempt is scheduled for
\* the task.
C1_RetryExhaustion ==
    \A t \in Tasks :
        attempts[t].failed = 5 =>
            /\ notifs[NotifOf(t)].status = "failed"
            /\ task[t].st # "retrying"

\* C2: once a Notification's status has been set to failed by the task, no
\* later step of the task changes it.
C2_FailedIsTerminal ==
    [][\A t \in Tasks :
          notifs[NotifOf(t)].status = "failed" =>
              notifs'[NotifOf(t)].status = "failed"]_vars

\* C4: after any number of attempts for a (notification, device) pair the
\* ledger holds exactly one row for the pair, and the row carries the status
\* and the error detail of the latest attempt.
C4_UpsertLatest ==
    \A t \in Tasks :
        attempts[t].last # NULL =>
            LET m == Matching(ledger, NotifOf(t), DeviceOf(t)) IN
            /\ Cardinality(m) = 1
            /\ \A i \in m :
                  /\ ledger[i].status =
                        (IF attempts[t].last = "ok" THEN "sent" ELSE "failed")
                  /\ ledger[i].error_message =
                        (IF attempts[t].last = "ok" THEN NULL ELSE attempts[t].last)

(***************************************************************************)
(* Properties of the senders.                                              *)
(***************************************************************************)

\* The handler runs whose multicast to two or more tokens returned.
MulticastRuns ==
    {k \in 1..Len(reqs) :
        /\ reqs[k].mode = "multicast"
        /\ reqs[k].raised = NULL
        /\ Len(reqs[k].tokens) >= 2}

\* C5: for every multicast send to N >= 2 tokens that returned, exactly N
\* ledger rows are written, one per target device, and the row of the i-th
\* device carries the provider's outcome for the i-th token: failed with the
\* captured error if and only if the i-th response is a failure.
C5_MulticastOutcomes ==
    \A k \in MulticastRuns :
        LET r == reqs[k]
            N == Len(r.tokens)
        IN
        /\ Cardinality({j \in 1..Len(ledger) : ledger[j].notification = r.notif}) = N
        /\ \A i \in 1..N :
             LET m == Matching(ledger, r.notif, r.tokens[i]) IN
             /\ Cardinality(m) = 1
             /\ \A j \in m :
                  /\ ledger[j].status = "failed" <=> ~r.responses[i].success
                  /\ ledger[j].status = "sent" <=> r.responses[i].success
                  /\ ledger[j].error_message = r.responses[i].exception

\* A view and the bulk task have each multicast to two or more tokens and got
\* a first response that succeeded and a second that failed.
C5_Witness ==
    /\ \E k \in MulticastRuns :
         /\ reqs[k].view # "bulk_task"
         /\ reqs[k].responses[1].success
         /\ ~reqs[k].responses[2].success
    /\ \E k \in MulticastRuns :
         /\ reqs[k].view = "bulk_task"
         /\ reqs[k].responses[1].success
         /\ ~reqs[k].responses[2].success

\* C9: on every synchronous send path, when the provider send raises, a failed
\* ledger row with the captured error text exists for every targeted device.
C9_FailedOutcomeOnRaise ==
    \A k \in 1..Len(reqs) :
        LET r == reqs[k] IN
        (r.view \in {"send", "bulk", "template", "topic"}
            /\ r.mode # "none" /\ r.raised # NULL) =>
            \A i \in 1..Len(r.tokens) :
                \E j \in 1..Len(ledger) :
                    /\ ledger[j].device = r.tokens[i]
                    /\ ledger[j].status = "failed"
                    /\ ledger[j].error_message = r.raised

(***************************************************************************)
(* Properties of the provider client pool.                                 *)
(***************************************************************************)

\* C6: two requests with the same cache key that return a client return the
\* same instance, and the client of a key is constructed at most once.
C6_SameInstancePerKey ==
    /\ \A x \in rets : \A y \in rets :
          (x[1] = y[1] /\ x[2] # 0 /\ y[2] # 0) => x[2] = y[2]
    /\ \A k \in AppNames : built[k] <= 1

\* Both threads have returned from a request for the same key with the same
\* client, after a third request was made and the client was built once.
C6_Witness ==
    /\ \A p \in Threads : thr[p].pc = "idle" /\ thr[p].calls >= 1
    /\ \E p \in Threads : thr[p].calls >= 2
    /\ \A p \in Threads : \A q \in Threads :
          thr[p].key = thr[q].key /\ thr[p].app = thr[q].app /\ thr[p].app # 0
    /\ \A p \in Threads : built[thr[p].key] = 1

\* C7: under every interleaving of concurrent first requests for a tenant, the
\* tenant's client is constructed at most once, and every instance a caller
\* holds for the key or the cache stores under it is that one instance.
C7_NoDuplicateClient ==
    \A x \in Tenants :
        LET name == AppName(x) IN
        /\ built[name] <= 1
        /\ fapps[name] \in {0, registry[name]}
        /\ \A p \in Threads :
              (thr[p].key = name /\ thr[p].pc = "store") => thr[p].app = registry[name]

\* Two threads have both missed the cache for the same tenant and both found
\* no app of that name: both are about to call initialize_app.
C7_Witness ==
    \E p \in Threads : \E q \in Threads :
        /\ p # q
        /\ thr[p].key = thr[q].key
        /\ thr[p].key # DEFAULT
        /\ thr[p].pc = "init"
        /\ thr[q].pc = "init"

\* C8: no request for a tenant's client fails, and every caller ends up with
\* the instance the cache holds for the key.
C8_NoTenantRequestFails ==
    \A x \in rets :
        x[1] # DEFAULT => (x[2] # 0 /\ x[2] = fapps[x[1]])

(***************************************************************************)
(* Properties of the webhook dispatcher.                                   *)
(***************************************************************************)

\* C3: after exactly 10 consecutive failed deliveries to a subscription its
\* is_active is false, and no delivery attempt is made to a subscription that
\* is stored inactive (until it is manually reactivated).
C3_AutoDisable ==
    \A w \in Webhooks :
        /\ whist.consecutive[w] = 10 => ~hooks[w].is_active
        /\ ~whist.to_inactive[w]

\* C19: once the failure threshold has set an endpoint's is_active to false,
\* no delivery attempt sets it back to true, also not an attempt that loaded
\* the endpoint before it was disabled; only a manual reactivation does.
C19_NoAutomaticReenable ==
    [][\A w \in Webhooks :
         (~hooks[w].is_active /\ hooks'[w].is_active) =>
            whist'.reactivated = whist.reactivated + 1]_vars

\* C20: within one dispatch call, threaded or queued, a failed delivery to
\* one matching endpoint leaves the delivery to every other matching endpoint
\* of the call to be made: the step of a failed delivery takes the failed
\* endpoint's object, and nothing else, out of what the call has still to
\* deliver, and what is left can be delivered.
C20_FailureLeavesOthers ==
    [][\A w \in Webhooks :
         whist'.consecutive[w] = whist.consecutive[w] + 1 =>
            \A s \in Slots :
               /\ \A c \in flight[s] : c.w # w => c \in flight'[s]
               /\ flight'[s] # {} => \E c \in flight'[s] : MayDeliver(s, c)']_vars

\* The queued dispatch has failed its delivery to endpoint 1 and holds the
\* delivery to endpoint 2, which it loaded with it.
C20_Witness ==
    /\ whist.consecutive[1] = 1
    /\ hooks[1].failure_count = 1
    /\ flight["request_a"] = {}
    /\ flight["request_b"] = {}
    /\ \E c \in flight[TaskSlot] : c.w = 2
    /\ \A c \in flight[TaskSlot] : c.w # 1

\* C21: when the deliveries to an endpoint follow one another, its
\* failure_count is the number of failed deliveries since its last successful
\* one: a success resets it to 0 and each failure adds exactly 1.
C21_CountIsConsecutiveFailures ==
    \A w \in Webhooks : hooks[w].failure_count = whist.consecutive[w]

\* An endpoint has been delivered to, has failed ten times in a row and has
\* reached the threshold.
C21_Witness ==
    \E w \in Webhooks :
        /\ whist.consecutive[w] = 10
        /\ hooks[w].failure_count = 10
        /\ ~hooks[w].is_active

\* C22: when no default credential is configured, a request for the client
\* of no tenant ends by raising (no app is returned), and the step in which
\* it ends leaves the client cache as it was.
C22_NoDefaultCredential ==
    [][\A p \in Threads :
         (/\ ~cred_path
          /\ thr[p].key = DEFAULT
          /\ thr[p].pc # "idle"
          /\ thr'[p].pc = "idle")
         => /\ thr'[p].app = 0
            /\ <<DEFAULT, 0>> \in rets'
            /\ fapps' = fapps
            /\ fapps[DEFAULT] = 0]_vars

\* Without default credential a default request has failed while a tenant's
\* client is cached.
C22_Witness ==
    /\ ~cred_path
    /\ <<DEFAULT, 0>> \in rets
    /\ \E x \in Tenants : fapps[AppName(x)] # 0

\* C23: in the asynchronous pipeline a configuration or resolution error (the
\* Notification, the Device or an active tenant credential is not found) is
\* surfaced without retry: no further attempt is scheduled after it.
C23_NoRetryOnResolutionError ==
    \A t \in Tasks :
        attempts[t].last \in ResolutionErrors => task[t].st # "retrying"

(***************************************************************************)
(* Further properties of the senders.                                      *)
(***************************************************************************)

\* C14: on every path that fans out to device tokens, a provider call with
\* exactly one token is a direct single send and a call with two or more
\* tokens is a multicast; no multicast is made with exactly one token.
C14_FanOutRule ==
    \A i \in 1..Len(reqs) :
        reqs[i].mode \in {"single", "multicast"} =>
            /\ Len(reqs[i].tokens) = 1 => reqs[i].mode = "single"
            /\ Len(reqs[i].tokens) >= 2 => reqs[i].mode = "multicast"

\* C15: a synchronous send (plain or from a template) to a phone number whose
\* profile has no active device returns the not-found failure, makes no
\* provider call and creates no Notification and no NotificationDeliveryLog row.
C15_NoDeviceNotFound ==
    [][(/\ Len(reqs') = Len(reqs) + 1
        /\ reqs'[Len(reqs')].view \in {"send", "template"}
        /\ Len(ActiveDevices(reqs'[Len(reqs')].phones)) = 0)
       => /\ reqs'[Len(reqs')].http = 404
          /\ reqs'[Len(reqs')].mode = "none"
          /\ reqs'[Len(reqs')].tokens = <<>>
          /\ notifs' = notifs
          /\ ledger' = ledger]_vars

\* A plain send and a template send to a profile without active device have
\* been answered.
C15_Witness ==
    \E i, j \in 1..Len(reqs) :
        /\ reqs[i].view = "send"
        /\ reqs[j].view = "template"
        /\ Len(ActiveDevices(reqs[i].phones)) = 0
        /\ Len(ActiveDevices(reqs[j].phones)) = 0

\* The handler runs in which the provider answered a multicast with at least
\* one failed recipient.
PartialFailures ==
    {i \in 1..Len(reqs) :
        /\ reqs[i].mode = "multicast"
        /\ reqs[i].raised = NULL
        /\ \E k \in 1..Len(reqs[i].responses) : ~reqs[i].responses[k].success}

C17_EveryAttemptWrites ==
    /\ \A t \in Tasks :
          attempts[t].last # NULL =>
             \E j \in 1..Len(ledger) :
                /\ ledger[j].notification = NotifOf(t)
                /\ ledger[j].device = DeviceOf(t)
    /\ \A i \in 1..Len(reqs) :
          (reqs[i].view = "bulk_task" /\ reqs[i].mode = "multicast") =>
             \A k \in 1..Len(reqs[i].tokens) :
                \E j \in 1..Len(ledger) :
                   /\ ledger[j].notification = reqs[i].notif
                   /\ ledger[j].device = reqs[i].tokens[k]

\* C18: when two writers record an outcome for the same (notification,
\* device) pair at the same time, under every interleaving the ledger ends
\* with exactly one row for the pair.
C18_OneRowPerPair ==
    (\A w \in Writers : wr[w].pc = "idle") =>
        \A d \in UpsertDevices :
            Cardinality(Matching(ledger, UpsertNotif, d)) <= 1

\* C28: the delay scheduled before the next attempt when n retries were made
\* (n = 0..4) is 30, 60, 120, 240, 480 seconds, and it grows from each retry
\* of a task to the next.
C28_BackoffDelays ==
    /\ [](\A t \in Tasks :
            task[t].st = "retrying" =>
               /\ task[t].retries \in 1..5
               /\ task[t].countdown = <<30, 60, 120, 240, 480>>[task[t].retries])
    /\ [][\A t \in Tasks :
            (task[t].st = "retrying" /\ task'[t].st = "retrying"
             /\ task'[t].retries # task[t].retries)
                => task'[t].countdown > task[t].countdown]_vars

C28_Witness ==
    \E t \in Tasks :
        /\ task[t].st = "retrying"
        /\ task[t].retries = 5
        /\ task[t].countdown = 480
        /\ attempts[t].failed = 5

\* The moves of a send task's state: from queued or retrying to the end of
\* the attempt made.
TaskMoves ==
    {<<"queued", "sent">>, <<"queued", "retrying">>, <<"retrying", "sent">>,
     <<"retrying", "retrying">>, <<"retrying", "permanently_failed">>}

C30_FailedIffExhausted ==
    /\ task[SingleTask].st = "permanently_failed"
          => notifs[NotifOf(SingleTask)].status = "failed"
    /\ task[SingleTask].st = "retrying"
          => notifs[NotifOf(SingleTask)].status # "failed"
    /\ btask.st = "permanently_failed" => notifs[BulkNotif].status = "failed"
    /\ btask.st = "retrying" => notifs[BulkNotif].status # "failed"
    /\ ttask.st = "permanently_failed" => notifs[TopicNotif].status = "failed"
    /\ ttask.st = "retrying" => notifs[TopicNotif].status # "failed"

\* C31: no send is made to a device whose is_active is false at the time of
\* the send, also when the device was deactivated between the enqueue of the
\* single-device task and its attempt or retry. (An attempt that ended in a
\* resolution error made no send.)
C31_NoSendToInactive ==
    [][\A t \in Tasks :
          (attempts'[t] # attempts[t] /\ attempts'[t].last \notin ResolutionErrors)
             => devices[DeviceOf(t)]]_vars

(***************************************************************************)
(* Properties of the token cleanup.                                        *)
(***************************************************************************)
\* C24: a run of cleanup_stale_tokens sets is_active to false on exactly the
\* active devices last seen more than 90 days before the run, leaves every
\* other device and every last_seen as they were and reports their number; a
\* run that follows another with no change in between deactivates nothing
\* and reports 0.
C24_CleanupExactAndIdempotent ==
    [][cleaned'.runs = cleaned.runs + 1 =>
         /\ \A d \in Devices :
               devices'[d] = (devices[d] /\ ~(last_seen[d] + 90 < clock))
         /\ last_seen' = last_seen
         /\ cleaned'.count =
               Cardinality({d \in Devices : devices[d] /\ ~devices'[d]})
         /\ cleaned.runs >= 1 => (cleaned'.count = 0 /\ devices' = devices)]_vars

C24_Witness ==
    /\ cleaned.runs = 2
    /\ cleaned.count = 0
    /\ cleaned.deactivated # {}
    /\ \E d \in Devices : devices[d] /\ last_seen[d] + 90 = clock
    /\ \E d \in Devices : ~devices[d] /\ d \notin cleaned.deactivated

(***************************************************************************)
(* Properties of the template engine.                                      *)
(***************************************************************************)
\* What a piece of the template string becomes: the string form of its
\* variable when it is a placeholder whose name has a value, itself otherwise.
RECURSIVE Expected(_, _)
Expected(pieces, variables) ==
    IF pieces = <<>> THEN <<>>
    ELSE LET p == Head(pieces)
             value == Get(variables, p.name)
         IN (IF p.name # <<>> /\ value # NoneV
             THEN (IF value.t = "str" THEN value.s
                   ELSE IF value.n = 17 THEN <<"1", "7">> ELSE <<"?">>)
             ELSE p.text)
            \o Expected(Tail(pieces), variables)

\* C25: render_template replaces every placeholder whose name has a value by
\* the value's string form and leaves every placeholder without a value (and
\* all other text) verbatim; "{{m}}" with no variables comes back unchanged.
C25_UnresolvedLeftVerbatim ==
    render.pc = "rendered" => render.out = Expected(render.pieces, render.variables)

C25_Witness ==
    /\ render.pc = "rendered"
    /\ Len(render.pieces) = 2
    /\ render.pieces[1].name = <<"m">>
    /\ render.pieces[2].name = <<"b">>
    /\ Get(render.variables, <<"b">>) = IntV(17)
    /\ render.out = <<"{", "{", "m", "}", "}", "1", "7">>

\* Every placeholder of the template string has a value in the variables.
Covered(pieces, variables) ==
    \A i \in 1..Len(pieces) :
        pieces[i].name # <<>> => Get(variables, pieces[i].name) # NoneV

\* C26: when every placeholder of s has a value in v, rendering is idempotent:
\* render(render(s, v), v) = render(s, v).
C26_RenderIdempotent ==
    (render.pc = "again" /\ Covered(render.pieces, render.variables))
        => render.again = render.out

\* C27: the data map render_notification_template returns has every str entry
\* of default_data rendered and every other entry unchanged, has the caller's
\* variables merged in as overrides, and the template row is left as it was.
C27_DataRenderedAndMerged ==
    render.pc = "notification" =>
        LET dd == render.default_data
            v == render.variables
            data == render.rendered.data
            given == {key \in DOMAIN v : v[key] # NoneV}
        IN  /\ \A key \in DOMAIN dd \ given :
                  /\ key \in DOMAIN data
                  /\ data[key] = IF dd[key].t = "str"
                                 THEN StrV(render_template(dd[key].s, v))
                                 ELSE dd[key]
            /\ \A key \in given : key \in DOMAIN data /\ data[key] = v[key]
            /\ render.rendered.template.default_data = dd

\* C32: in the synchronous send path the notification.sent webhook is
\* dispatched only by a request whose provider send returned and that has
\* written the ledger row of every recipient; never by a request whose send
\* raised.
C32_WebhookAfterOutcomes ==
    \A i \in 1..Len(reqs) :
        reqs[i].webhook =>
            /\ reqs[i].raised = NULL
            /\ reqs[i].http = 200
            /\ Len(reqs[i].tokens) > 0
            /\ \A k \in 1..Len(reqs[i].tokens) :
                  Matching(ledger, reqs[i].notif, reqs[i].tokens[k]) # {}

C32_Witness ==
    \E i \in 1..Len(reqs) :
        /\ reqs[i].webhook
        /\ reqs[i].mode = "multicast"
        /\ Len(reqs[i].tokens) = 2
        /\ ~reqs[i].responses[2].success
        /\ \E j \in 1..Len(reqs) : reqs[j].view = "send" /\ reqs[j].raised # NULL

(***************************************************************************)
(* Properties of the scheduled sweep.                                      *)
(***************************************************************************)

\* C10: an exception raised while a run of process_scheduled_notifications
\* processes one due row does not abort the run: the row that raised is left
\* with status paused, and when the run returns every other due row it loaded
\* has been processed (advanced and saved, and counted in 'processed').
C10_SweepSurvivesException ==
    \A s \in Sweepers :
        /\ \A r \in shist.raised[s] : sched[r].status = "paused"
        /\ sweep[s].pc = "done" =>
              /\ shist.loaded[s] \ shist.raised[s] = shist.saved[s]
              /\ sweep[s].processed = Cardinality(shist.saved[s])
              /\ \A r \in shist.saved[s] :
                    /\ sched[r].status \in {"active", "completed"}
                    /\ sched[r].last_sent_at = sweep[s].now

\* A run has returned in which the first due row raised and the second was
\* processed.
C10_Witness ==
    \E s \in Sweepers :
        /\ sweep[s].pc = "done"
        /\ \E r1 \in shist.raised[s], r2 \in shist.saved[s] : r1 < r2

\* The run s processes the row r without error in this step.
Processes(s, r) ==
    /\ sweep[s].pc = "loop"
    /\ sweep[s].due # <<>>
    /\ Head(sweep[s].due).r = r
    /\ r \in shist'.saved[s]
    /\ r \notin shist.saved[s]

\* C11: when a run processes a due row without error, the row's
\* occurrence_count grows by exactly one, and if max_occurrences is set and
\* the new count reaches it, or repeat_interval is none, the row becomes
\* completed with next_run_at cleared.
C11_CountAndCompletion ==
    [][\A s \in Sweepers : \A r \in Rows :
         Processes(s, r) =>
           /\ sched'[r].occurrence_count = sched[r].occurrence_count + 1
           /\ (\/ /\ sched[r].max_occurrences # 0
                   /\ sched'[r].occurrence_count >= sched[r].max_occurrences
                \/ sched[r].repeat_interval = "none")
                => /\ sched'[r].status = "completed"
                   /\ sched'[r].next_run_at = None]_vars

\* A daily row with a cap of two occurrences has been processed twice and is
\* completed by the cap.
C11_Witness ==
    \E r \in Rows :
        /\ sched[r].repeat_interval = "daily"
        /\ sched[r].max_occurrences = 2
        /\ sched[r].occurrence_count = 2
        /\ sched[r].status = "completed"
        /\ sched[r].next_run_at = None

\* C12: when a run processes a due row without error, the cap is not reached
\* and repeat_interval is daily, weekly or monthly, the row becomes active and
\* next_run_at is the run's time plus 1, 7 or 30 days.
C12_NextRun ==
    [][\A s \in Sweepers : \A r \in Rows :
         (/\ Processes(s, r)
          /\ ~(/\ sched[r].max_occurrences # 0
                /\ sched[r].occurrence_count + 1 >= sched[r].max_occurrences)
          /\ sched[r].repeat_interval \in {"daily", "weekly", "monthly"})
         => /\ sched'[r].status = "active"
            /\ sched[r].repeat_interval = "daily" =>
                  sched'[r].next_run_at = sweep[s].now + 1
            /\ sched[r].repeat_interval = "weekly" =>
                  sched'[r].next_run_at = sweep[s].now + 7
            /\ sched[r].repeat_interval = "monthly" =>
                  sched'[r].next_run_at = sweep[s].now + 30]_vars

\* A monthly row and a daily row without cap have been processed: both are
\* active, 30 days and one day after their processing time.
C12_Witness ==
    \E r1, r2 \in Rows :
        /\ sched[r1].repeat_interval = "monthly"
        /\ sched[r1].status = "active"
        /\ sched[r1].next_run_at = sched[r1].last_sent_at + 30
        /\ sched[r2].repeat_interval = "daily"
        /\ sched[r2].max_occurrences = 0
        /\ sched[r2].status = "active"
        /\ sched[r2].next_run_at = sched[r2].last_sent_at + 1

\* C13: a run sends and changes a row only if the row's status is pending or
\* active and its next_run_at is at or before the run's time; every other
\* row is left as it is.
C13_OnlyDueRows ==
    [][\A r \in Rows :
         (sched'[r] # sched[r] \/ shist'.sends[r] # shist.sends[r]) =>
            /\ sched[r].status \in {"pending", "active"}
            /\ sched[r].next_run_at # None
            /\ \E s \in Sweepers : /\ sweep[s].pc = "loop"
                                    /\ sched[r].next_run_at <= sweep[s].now]_vars

\* A run has returned that processed a due row and left a row that was not
\* yet due pending.
C13_Witness ==
    \E s \in Sweepers :
        /\ sweep[s].pc = "done"
        /\ shist.saved[s] # {}
        /\ \E r \in Rows \ shist.loaded[s] :
              /\ sched[r].status = "pending"
              /\ sched[r].next_run_at > sweep[s].now

\* C33: the sweep advances a row (occurrence_count, last_sent_at, active or
\* completed) only if a provider send was performed for it in that sweep: a
\* row is never ahead of the sends made for it, and a row with no topic and
\* no phone numbers is not counted as an occurrence.
C33_AdvanceOnlyAfterSend ==
    \A r \in Rows :
        /\ sched[r].occurrence_count <= shist.sends[r]
        /\ sched[r].last_sent_at # None => shist.sends[r] > 0
        /\ sched[r].status \in {"active", "completed"} => shist.sends[r] > 0

\* C34: when a default credential is configured, no request for the default
\* client ends by raising, whatever clients were created before it.
C34_DefaultClientSucceeds ==
    cred_path => <<DEFAULT, 0>> \notin rets

\* C35: completed and paused are absorbing for the sweep: no step of a run of
\* process_scheduled_notifications changes a field of such a row or sends it,
\* and no run started afterwards loads it.
C35_CompletedPausedAbsorbing ==
    [][\A r \in Rows :
          sched[r].status \in {"completed", "paused"}
             => /\ sched'[r] = sched[r]
                /\ shist'.sends[r] = shist.sends[r]
                /\ \A s \in Sweepers :
                      sweep'[s] # sweep[s] /\ sweep'[s].pc = "loop"
                         => \A i \in 1..Len(sweep'[s].due) : sweep'[s].due[i].r # r]_vars

C35_Witness ==
    \E r \in Rows, q \in Rows, s \in Sweepers :
        /\ sched[r].status = "paused"
        /\ sched[r].next_run_at <= sweep[s].now
        /\ r \notin shist.loaded[s]
        /\ q \in shist.saved[s]
        /\ sched[q].status = "completed"
        /\ sched[q].occurrence_count = 2
        /\ sweep[s].pc = "done"

\* C36: for a row with max_occurrences set, created with occurrence_count 0,
\* neither occurrence_count nor the number of sends made for it exceeds
\* max_occurrences, after any sequence of sweeps that do not overlap.
C36_CapNeverExceeded ==
    \A r \in Rows :
        sched[r].max_occurrences # 0
           => /\ sched[r].occurrence_count <= sched[r].max_occurrences
              /\ shist.sends[r] <= sched[r].max_occurrences

C36_Witness ==
    \E r \in Rows :
        /\ sched[r].max_occurrences = 2
        /\ sched[r].occurrence_count = 2
        /\ shist.sends[r] = 2
        /\ sched[r].status = "completed"
        /\ sched[r].repeat_interval = "daily"
        /\ clock > sched[r].last_sent_at
        /\ \E s \in Sweepers : sweep[s].pc = "done" /\ sweep[s].now > sched[r].last_sent_at

\* C37: when two runs of process_scheduled_notifications overlap, a row that
\* is due once (it does not repeat) is sent at most once and its
\* occurrence_count is incremented by exactly one across both runs.
C37_OverlapSendsOnce ==
    \A r \in Rows :
        sched[r].repeat_interval = "none"
           => /\ shist.sends[r] <= 1
              /\ sched[r].occurrence_count <= 1
              /\ sched[r].status = "completed" => sched[r].occurrence_count = 1

\* C38: when deliveries to the same endpoint run concurrently and fail, no
\* failure is lost: the stored failure_count is never behind the failed
\* deliveries made since the last success (two concurrent failures raise it
\* by 2).
C38_NoLostFailure ==
    \A w \in Webhooks : hooks[w].failure_count >= whist.consecutive[w]

\* C39: a Notification created by a synchronous send has status sent only if
\* the provider send returned and the delivery to at least one recipient
\* succeeded; none stays sent when the send raised or every recipient failed.
C39_SentOnlyIfDelivered ==
    \A i \in 1..Len(reqs) :
        (/\ reqs[i].view \in {"send", "bulk", "template"}
         /\ reqs[i].notif # 0
         /\ notifs[reqs[i].notif].status = "sent")
            => /\ reqs[i].raised = NULL
               /\ \/ reqs[i].mode = "single"
                  \/ \E k \in 1..Len(reqs[i].responses) : reqs[i].responses[k].success

====
